---- MODULE Spec2Model ----
(***************************************************************************)
(* Vani voice assistant (AarambhDevHub/vani-assistant): the main loop of   *)
(* main.py, the command router OllamaHandler.generate_response of          *)
(* llm_handler.py and the adapters it calls.                               *)
(*                                                                         *)
(* Text.  Python strings are TLA+ strings.  A character outside ASCII      *)
(* (Devanagari, Gujarati) is written as "#" followed by its four-digit     *)
(* decimal code point, so that `in`, startswith and lower() act on the     *)
(* encoded text exactly as Python acts on the original: "#2348#2306#2342   *)
(* #2325#2352#2379" is the Hindi phrase U+092C U+0902 U+0926 U+0020 U+0915 *)
(* U+0930 U+094B.  No ASCII phrase of the source holds "#" or a digit.     *)
(*                                                                         *)
(* Python values.  A value a call returns is a record [kind, s]: None, a   *)
(* str, or a coroutine object (what calling an `async def` function        *)
(* returns before it is awaited).  `await v` runs v when v is a coroutine  *)
(* and raises TypeError when v is None or a str.                           *)
(***************************************************************************)
EXTENDS Integers, Sequences, FiniteSets, TLC

(***************************************************************************)
(* Bounds of the model                                                     *)
(***************************************************************************)
\* the clock time.time() takes the values 1..MaxTime
MaxTime == 2
\* exchanges recorded in one run of the history specification SpecHistory
MaxExchanges == 11
\* the last second of the clock when requests come long after a capture
MaxClock == 63
\* exchanges of generate_with_vision_context
MaxVisionChats == 2
\* exchanges in the log when prompts are assembled from it
MaxPromptExchanges == 4
\* exchanges in the log when the lines after the vision check run on their own
MaxRouterExchanges == 2
\* concurrent callers of VisionHandler.see_and_describe
MaxTasks == 3

(***************************************************************************)
(* Strings                                                                 *)
(***************************************************************************)
\* Python: sub in s
Contains(s, sub) ==
  \E i \in 1..(Len(s) - Len(sub) + 1) : SubSeq(s, i, i + Len(sub) - 1) = sub

\* Python: any(p in s for p in table)
AnyIn(table, s) == \E p \in table : Contains(s, p)

\* Python: s.startswith(p)
StartsWith(s, p) == Len(p) <= Len(s) /\ SubSeq(s, 1, Len(p)) = p

UpperLetters == "ABCDEFGHIJKLMNOPQRSTUVWXYZ"
LowerLetters == "abcdefghijklmnopqrstuvwxyz"

LowerChar(c) ==
  IF \E i \in 1..Len(UpperLetters) : SubSeq(UpperLetters, i, i) = c
  THEN LET i == CHOOSE j \in 1..Len(UpperLetters) : SubSeq(UpperLetters, j, j) = c
       IN SubSeq(LowerLetters, i, i)
  ELSE c

\* Python: s.lower() (the letters without case, and the digits, are kept)
RECURSIVE Lower(_)
Lower(s) == IF s = "" THEN "" ELSE LowerChar(SubSeq(s, 1, 1)) \o Lower(Tail(s))

\* Python: s.rstrip(chars), chars a set of one-character strings
RECURSIVE RStrip(_, _)
RStrip(s, chars) ==
  IF s # "" /\ SubSeq(s, Len(s), Len(s)) \in chars
  THEN RStrip(SubSeq(s, 1, Len(s) - 1), chars)
  ELSE s

RECURSIVE LStrip(_, _)
LStrip(s, chars) ==
  IF s # "" /\ SubSeq(s, 1, 1) \in chars THEN LStrip(Tail(s), chars) ELSE s

Whitespace == {" ", "\t", "\n", "\r"}

\* Python: s.strip()
Strip(s) == LStrip(RStrip(s, Whitespace), Whitespace)

(***************************************************************************)
(* Python values                                                           *)
(***************************************************************************)
None == [kind |-> "None", s |-> ""]
Str(x) == [kind |-> "str", s |-> x]
\* the object a call of the coroutine function f returns; its body has not run
Coroutine(f) == [kind |-> "coroutine", s |-> f]

\* bool(v): None and "" are false, every other str and every coroutine object true
Truthy(v) == v.kind = "coroutine" \/ (v.kind = "str" /\ v.s # "")

\* whether `await v` can run v; on any other value it raises TypeError
Awaitable(v) == v.kind = "coroutine"

\* str(v), as an f-string formats v
Format(v) ==
  CASE v.kind = "str" -> v.s
    [] v.kind = "None" -> "None"
    [] OTHER -> "<coroutine object " \o v.s \o ">"

(***************************************************************************)
(* Phrase tables                                                           *)
(***************************************************************************)
\* main.py 130-134
identity_phrases ==
  {
    "who are you", "what is your name", "your name",
    "#2340#2369#2350 #2325#2380#2344 #2361#2379",
    "#2340#2369#2350#2381#2361#2366#2352#2366 #2344#2366#2350 #2325#2381#2351#2366 #2361#2376",
    "#2724#2734#2759 #2709#2763#2723 #2715#2763",
    "#2724#2734#2750#2736#2753#2690 #2728#2750#2734 #2742#2753#2690 #2715#2759"
  }

\* main.py 151-155
exit_words ==
  {
    "exit", "quit", "goodbye", "bye", "stop",
    "#2348#2366#2361#2352 #2344#2367#2325#2354#2375#2306",
    "#2348#2306#2342 #2325#2352#2379", "#2309#2354#2357#2367#2342#2366", "#2348#2366#2351",
    "#2732#2745#2750#2736 #2728#2752#2709#2739#2763", "#2732#2690#2727 #2709#2736#2763",
    "#2693#2738#2741#2751#2726#2750", "#2732#2750#2735"
  }

\* main.py 161-165
reset_words ==
  {
    "reset", "clear history", "start over", "#2352#2368#2360#2375#2335",
    "#2311#2340#2367#2361#2366#2360 #2360#2366#2347#2364 #2325#2352#2375#2306",
    "#2736#2752#2744#2759#2719",
    "#2695#2724#2751#2745#2750#2744 #2744#2750#2731 #2709#2736#2763"
  }

\* multi_model_handler.py 30-46
explicit_triggers ==
  {
    "what do you see", "what can you see", "look at", "describe what you see",
    "tell me what you see", "camera", "take a look", "show me",
    "#2325#2381#2351#2366 #2342#2367#2326 #2352#2361#2366 #2361#2376",
    "#2325#2381#2351#2366 #2342#2375#2326 #2352#2361#2366 #2361#2376",
    "#2325#2381#2351#2366 #2342#2368#2326 #2352#2361#2366 #2361#2376",
    "#2342#2375#2326#2379", "#2342#2367#2326#2366#2323", "#2342#2375#2326",
    "#2325#2381#2351#2366 #2361#2376", "#2351#2361 #2325#2381#2351#2366 #2361#2376",
    "#2351#2375 #2325#2381#2351#2366 #2361#2376", "#2325#2376#2350#2352#2366",
    "#2325#2376#2350#2352#2375 #2360#2375 #2342#2375#2326#2379",
    "#2724#2734#2759 #2742#2753#2690 #2716#2753#2707 #2715#2763",
    "#2742#2753#2690 #2726#2759#2710#2750#2735 #2715#2759",
    "#2742#2753#2690 #2716#2763#2741#2750 #2734#2739#2759 #2715#2759", "#2716#2753#2707",
    "#2726#2759#2710#2750#2741#2763", "#2742#2753#2690 #2715#2759",
    "#2694 #2742#2753#2690 #2715#2759", "#2703 #2742#2753#2690 #2715#2759",
    "#2709#2759#2734#2759#2736#2750",
    "#2709#2759#2734#2759#2736#2750#2725#2752 #2716#2753#2707"
  }

\* multi_model_handler.py 55-84
vision_question_patterns ==
  {
    "how many people", "how many person", "who is", "who are", "is there a person",
    "are there people", "anyone here", "#2325#2367#2340#2344#2375 #2354#2379#2327",
    "#2325#2367#2340#2344#2375 #2357#2381#2351#2325#2381#2340#2367",
    "#2325#2380#2344 #2361#2376", "#2325#2379#2312 #2357#2381#2351#2325#2381#2340#2367",
    "#2709#2759#2719#2738#2750 #2738#2763#2709#2763", "#2709#2763#2723 #2715#2759",
    "#2709#2763#2696 #2741#2765#2735#2709#2765#2724#2751", "what object", "what is on",
    "what is in front", "how many object", "count the", "objects in",
    "#2325#2381#2351#2366 #2357#2360#2381#2340#2369",
    "#2325#2367#2340#2344#2368 #2357#2360#2381#2340#2369",
    "#2325#2367#2340#2344#2375 #2330#2368#2332",
    "#2742#2753#2690 #2741#2744#2765#2724#2753",
    "#2709#2759#2719#2738#2752 #2741#2744#2765#2724#2753", "what color", "what colour",
    "color of", "#2325#2381#2351#2366 #2352#2306#2327",
    "#2352#2306#2327 #2325#2376#2360#2366", "#2709#2735#2763 #2736#2690#2711",
    "#2736#2690#2711 #2742#2753#2690", "where is", "where am i", "what room", "what place",
    "#2325#2361#2366#2305 #2361#2376", "#2325#2361#2366#2305 #2361#2370#2305",
    "#2325#2380#2344 #2360#2366 #2325#2350#2352#2366",
    "#2709#2765#2735#2750#2690 #2715#2759", "#2709#2765#2735#2750#2690 #2715#2753#2690",
    "describe the", "describe this", "what is this", "tell me about this", "read this",
    "what does it say", "#2348#2340#2366#2323 #2351#2361",
    "#2351#2361 #2325#2381#2351#2366", "#2741#2736#2765#2723#2728 #2709#2736#2763",
    "#2694 #2742#2753#2690", "read the text", "read what", "#2346#2338#2364#2379",
    "#2325#2381#2351#2366 #2354#2367#2326#2366 #2361#2376", "#2741#2750#2690#2714#2763",
    "#2742#2753#2690 #2738#2710#2765#2735#2753#2690 #2715#2759"
  }

\* multi_model_handler.py 93-99
visual_nouns ==
  {
    "person", "people", "face", "man", "woman", "object", "thing", "item", "room", "wall",
    "door", "window", "#2357#2381#2351#2325#2381#2340#2367", "#2354#2379#2327",
    "#2357#2360#2381#2340#2369", "#2325#2350#2352#2366", "#2342#2368#2357#2366#2352",
    "#2738#2763#2709#2763", "#2741#2744#2765#2724#2753", "#2736#2754#2734",
    "#2726#2751#2741#2750#2738"
  }

\* multi_model_handler.py 101-104
question_words ==
  {
    "what", "how many", "which", "where", "is there", "#2325#2381#2351#2366",
    "#2325#2367#2340#2344#2375", "#2325#2361#2366#2305", "#2709#2735#2753#2690",
    "#2709#2759#2719#2738#2750", "#2709#2765#2735#2750#2690"
  }

\* multi_model_handler.py 114-118
vision_verbs ==
  {
    "see", "look", "watch", "view", "show", "#2342#2375#2326", "#2342#2367#2326",
    "#2342#2368#2326", "#2342#2367#2326#2366", "#2342#2375#2326#2379", "#2716#2753#2707",
    "#2716#2763#2741#2753#2690", "#2726#2759#2710#2750#2741#2763"
  }

\* llm_handler.py 65-69
explicit_search ==
  {
    "search", "find", "look up", "google", "search for", "#2326#2379#2332#2375#2306",
    "#2338#2370#2306#2338#2375#2306", "#2360#2352#2381#2330", "#2742#2763#2727#2763",
    "#2742#2763#2727"
  }

\* llm_handler.py 74-78
news_keywords ==
  {
    "news", "latest", "recent", "update", "happening", "today",
    "#2360#2350#2366#2330#2366#2352", "#2326#2364#2348#2352", "#2340#2366#2332#2364#2366",
    "#2310#2332", "#2744#2734#2750#2714#2750#2736", "#2724#2750#2716#2750",
    "#2694#2716#2759"
  }

\* llm_handler.py 83-91
time_sensitive ==
  {
    "weather", "temperature", "forecast", "price", "cost", "value", "worth", "stock",
    "market", "rate", "score", "match", "game", "result", "event", "concert", "show",
    "#2350#2380#2360#2350", "#2340#2366#2346#2350#2366#2344", "#2325#2368#2350#2340",
    "#2360#2381#2335#2377#2325", "#2745#2741#2750#2734#2750#2728",
    "#2709#2751#2690#2734#2724", "#2744#2765#2719#2763#2709"
  }

\* llm_handler.py 96-101
current_info_patterns ==
  {
    "what is happening", "what happened", "who won", "who is", "where is", "when is",
    "how much", "current", "#2325#2381#2351#2366 #2361#2379 #2352#2361#2366",
    "#2325#2381#2351#2366 #2361#2369#2310", "#2325#2380#2344 #2361#2376",
    "#2357#2352#2381#2340#2350#2366#2344",
    "#2742#2753#2690 #2725#2696 #2736#2745#2765#2735#2753#2690",
    "#2742#2753#2690 #2725#2735#2753#2690", "#2709#2763#2723 #2715#2759",
    "#2741#2736#2765#2724#2734#2750#2728"
  }

\* llm_handler.py 109-115
knowledge_patterns ==
  {
    "what is", "who is", "what are", "who are", "tell me about", "explain", "describe",
    "definition of", "meaning of", "history of", "#2325#2381#2351#2366 #2361#2376",
    "#2325#2380#2344 #2361#2376", "#2348#2340#2366#2323", "#2360#2350#2333#2366#2323",
    "#2742#2753#2690 #2715#2759", "#2709#2763#2723 #2715#2759", "#2716#2723#2750#2741#2763",
    "#2744#2734#2716#2750#2741#2763"
  }

\* llm_handler.py 138-141: the words that make a web-search query a news query
news_words == {"news", "latest", "recent", "#2360#2350#2366#2330#2366#2352", "#2744#2734#2750#2714#2750#2736"}

\* multi_model_handler.py 122: the question marks of the vision-verb fallback
verb_question_words == {"what", "#2325#2381#2351#2366", "#2709#2735#2753#2690", "#2709#2759#2734"}

\* desktop_automation.py 34-41: self.websites, in insertion order
websites ==
  << <<"youtube", "youtube.com">>, <<"google", "google.com">>, <<"gmail", "gmail.com">>,
     <<"facebook", "facebook.com">>, <<"twitter", "twitter.com">>, <<"github", "github.com">> >>

\* desktop_automation.py 22-32: self.apps, in insertion order
apps ==
  << <<"firefox", "firefox">>, <<"chrome", "google-chrome">>, <<"chromium", "chromium-browser">>,
     <<"terminal", "gnome-terminal">>, <<"files", "nautilus">>, <<"calculator", "gnome-calculator">>,
     <<"text editor", "gedit">>, <<"code", "code">>, <<"settings", "gnome-control-center">> >>

\* desktop_automation.py 176-184: proc_map, in insertion order
proc_map ==
  << <<"terminal", "gnome-terminal">>, <<"firefox", "firefox">>, <<"chrome", "chrome">>,
     <<"files", "nautilus">>, <<"calculator", "gnome-calculator">>, <<"text editor", "gedit">>,
     <<"code", "code">> >>

Keys(table) == {table[i][1] : i \in 1..Len(table)}

\* the first entry of an insertion-ordered dict whose key is in cmd, 0 when none is
FirstKeyIn(table, cmd) ==
  IF \E i \in 1..Len(table) : Contains(cmd, table[i][1])
  THEN CHOOSE i \in 1..Len(table) :
         /\ Contains(cmd, table[i][1])
         /\ \A j \in 1..(i - 1) : ~Contains(cmd, table[j][1])
  ELSE 0

(***************************************************************************)
(* Intent classifiers                                                      *)
(***************************************************************************)
_is_identity_question(text) == AnyIn(identity_phrases, Lower(text))

_is_exit_command(text) == AnyIn(exit_words, Lower(text))

\* a variant that recognises no reset command, for testing what the reset
\* properties detect
_is_reset_command_never(text) == FALSE

_is_reset_command(text) == AnyIn(reset_words, Lower(text))

\* a variant that takes any question mark for a vision question, without a vision
\* verb, for testing what the properties of the classifier detect
_needs_vision_any_question(command) ==
  LET cmd == Lower(command)
  IN \/ AnyIn(explicit_triggers, cmd)
     \/ AnyIn(vision_question_patterns, cmd)
     \/ AnyIn(question_words, cmd) /\ AnyIn(visual_nouns, cmd)
     \/ Contains(cmd, "?") \/ AnyIn(verb_question_words, cmd)

_needs_vision(command) ==
  LET cmd == Lower(command)
  IN \/ AnyIn(explicit_triggers, cmd)
     \/ AnyIn(vision_question_patterns, cmd)
     \/ AnyIn(question_words, cmd) /\ AnyIn(visual_nouns, cmd)
     \/ AnyIn(vision_verbs, cmd) /\ (Contains(cmd, "?") \/ AnyIn(verb_question_words, cmd))

_needs_web_search(query) ==
  LET query_lower == Lower(query)
  IN \/ AnyIn(explicit_search, query_lower)
     \/ AnyIn(news_keywords, query_lower)
     \/ AnyIn(time_sensitive, query_lower)
     \/ AnyIn(current_info_patterns, query_lower)

_is_knowledge_query(query) == AnyIn(knowledge_patterns, Lower(query))

\* llm_handler.py 138-141
is_news(user_input) == _needs_web_search(user_input) /\ AnyIn(news_words, Lower(user_input))

\* desktop_automation.py 57: command.lower().strip().rstrip('.!?,')
DesktopCmd(command) == RStrip(Strip(Lower(command)), {".", "!", "?", ","})

_has_website(cmd) == AnyIn(Keys(websites) \cup {"website", ".com", "browse", "visit", "go to"}, cmd)

_is_open_app(cmd) == AnyIn({"open", "launch", "start", "run"}, cmd)

_is_close_app(cmd) == AnyIn({"close", "quit", "exit", "kill", "stop"}, cmd)

\* the question words of MultiModelHandler._generate_vision_question (302-304)
vision_question_words ==
  {"what", "how", "where", "when", "why", "who", "which", "#2325#2381#2351#2366",
   "#2325#2376#2360#2375", "#2325#2361#2366#2305", "#2325#2348",
   "#2325#2381#2351#2379#2306", "#2325#2380#2344", "#2742#2753#2690", "#2709#2759#2734",
   "#2709#2765#2735#2750#2690", "#2709#2765#2735#2750#2736#2759", "#2709#2763#2723"}

_generate_vision_question_no_table(command) ==
  IF \E qw \in vision_question_words : StartsWith(Lower(Strip(command)), qw)
  THEN "Answer this question about the image: " \o Strip(command)
  ELSE "Describe everything you see in this image in detail, including any text, numbers, people, objects, colors, and the setting. Be specific and thorough."

\* MultiModelHandler._generate_vision_question (235-311): the rules in the order of
\* the code, then the question words, then the general prompt
_generate_vision_question(command) ==
  LET cmd == Lower(command)
      question == Strip(command)
  IN
  IF AnyIn({"time", "clock", "watch", "#2360#2350#2351", "#2328#2337#2364#2368",
           "#2744#2734#2735", "#2712#2721#2751#2735#2750#2739"}, cmd)
  THEN "What time is shown on any clock, watch, or time display visible in this image? Read the exact time."
  ELSE IF AnyIn({"how many people", "how many person",
           "#2325#2367#2340#2344#2375 #2354#2379#2327",
           "#2709#2759#2719#2738#2750 #2738#2763#2709#2763"}, cmd)
  THEN "How many people are in this image? Count them carefully."
  ELSE IF AnyIn({"who is", "who are", "#2325#2380#2344 #2361#2376", "#2709#2763#2723 #2715#2759"}, cmd)
  THEN "Describe the people in this image. Who do you see?"
  ELSE IF AnyIn({"how many object", "count", "#2325#2367#2340#2344#2375",
           "#2709#2759#2719#2738#2750"}, cmd)
  THEN "Count and list all the objects you can see in this image."
  ELSE IF AnyIn({"what color", "what colour", "#2352#2306#2327", "#2736#2690#2711"}, cmd)
  THEN "What colors do you see in this image? Describe them in detail."
  ELSE IF AnyIn({"where am i", "what room", "what place", "#2325#2361#2366#2305",
           "#2709#2765#2735#2750#2690"}, cmd)
  THEN "Describe this location. What kind of room or place is this? What can you see?"
  ELSE IF AnyIn({"read", "text", "written", "#2346#2338#2364", "#2354#2367#2326#2366",
           "#2741#2750#2690#2714", "#2738#2710#2765#2735#2753#2690"}, cmd)
  THEN "Read all the text visible in this image. What does it say?"
  ELSE IF AnyIn({"what is this", "what is on", "what is in"}, cmd)
  THEN "Describe the main object or item in this image in detail."
  ELSE IF AnyIn({"weather", "temperature", "#2350#2380#2360#2350",
           "#2745#2741#2750#2734#2750#2728"}, cmd)
  THEN "If there's a weather display or temperature reading visible, what does it show?"
  ELSE IF AnyIn({"price", "cost", "how much", "#2325#2368#2350#2340", "#2709#2751#2690#2734#2724"}, cmd)
  THEN "If there are any prices or monetary values visible, what are they?"
  ELSE IF AnyIn({"screen", "monitor", "display", "phone", "#2360#2381#2325#2381#2352#2368#2344",
           "#2744#2765#2709#2765#2736#2752#2728"}, cmd)
  THEN "What is displayed on the screen or monitor in this image? Describe what you see."
  ELSE IF AnyIn({"sign", "label", "#2360#2366#2311#2344", "#2738#2759#2732#2738"}, cmd)
  THEN "What signs, labels, or text are visible in this image? Read them."
  ELSE IF AnyIn({"what do you see", "what can you see", "describe",
           "#2342#2367#2326 #2352#2361#2366", "#2342#2375#2326 #2352#2361#2366",
           "#2716#2753#2707 #2715#2763"}, cmd)
  THEN "Describe everything visible in this image in detail - including people, objects, text, numbers, colors, and any information displayed."
  ELSE IF \E qw \in vision_question_words : StartsWith(Lower(question), qw)
  THEN "Answer this question about the image: " \o question
  ELSE "Describe everything you see in this image in detail, including any text, numbers, people, objects, colors, and the setting. Be specific and thorough."

(***************************************************************************)
(* Inputs                                                                  *)
(***************************************************************************)
Weather == "What's the weather today?"
CloseTerminalHi == "#2348#2306#2342 #2325#2352#2379 #2335#2352#2381#2350#2367#2344#2354"
Hello == "Hello, are you working?"

StockQuestion == "explain the stock market"

Utterances ==
  {Weather, CloseTerminalHi, Hello, "reset", "close terminal", "show me the system",
   "stop the camera", "who are you", "what do you see", "open youtube", "latest news",
   "what is python", StockQuestion}

\* the language codes the transcription reports: the three supported ones and another
Languages == {"en", "hi", "gu", "fr"}

Heard == {<<>>} \cup (Utterances \X Languages)

\* what the classifiers give for each utterance, computed once
Classified ==
  [u \in Utterances |->
     [identity |-> _is_identity_question(u), exit |-> _is_exit_command(u),
      reset |-> _is_reset_command(u), vision |-> _needs_vision(u),
      news |-> is_news(u), knowledge |-> _is_knowledge_query(u),
      web |-> _needs_web_search(u)]]


\* the callers of VisionHandler.see_and_describe
Tasks == 1..MaxTasks
\* main.py 77-81
goodbye_msg(lang) ==
  CASE lang = "en" -> "Goodbye! Vani signing off."
    [] lang = "hi" -> "#2309#2354#2357#2367#2342#2366! #2357#2366#2339#2368 #2357#2367#2342#2366 #2354#2375 #2352#2361#2368 #2361#2376#2404"
    [] lang = "gu" -> "#2694#2741#2716#2763! #2741#2750#2723#2752 #2716#2724#2752 #2736#2745#2752 #2715#2759."
    [] OTHER -> "Goodbye!"

\* main.py 91-95
reset_msg(lang) ==
  CASE lang = "en" -> "Conversation history cleared"
    [] lang = "hi" -> "#2348#2366#2340#2330#2368#2340 #2325#2366 #2311#2340#2367#2361#2366#2360 #2360#2366#2347#2364 #2361#2379 #2327#2351#2366"
    [] lang = "gu" -> "#2741#2750#2724#2714#2752#2724 #2695#2724#2751#2745#2750#2744 #2744#2750#2731 #2725#2735#2763"
    [] OTHER -> "Conversation history cleared"

\* main.py 107-111
error_msg(lang) ==
  CASE lang = "en" -> "I'm sorry, I couldn't process that"
    [] lang = "hi" -> "#2325#2381#2359#2350#2366 #2325#2352#2375#2306, #2350#2376#2306 #2311#2360#2375 #2360#2306#2360#2366#2343#2367#2340 #2344#2361#2368#2306 #2325#2352 #2360#2325#2366"
    [] lang = "gu" -> "#2734#2750#2731 #2709#2736#2742#2763, #2745#2753#2690 #2724#2759#2728#2759 #2730#2765#2736#2709#2765#2736#2751#2735#2750 #2709#2736#2752 #2742#2709#2765#2735#2763 #2728#2745#2752#2690"
    [] OTHER -> "I'm sorry, I couldn't process that"

\* main.py 140-146
introductions(lang) ==
  CASE lang = "en" -> "I am Vani, your multilingual AI voice assistant. I can help you in English, Hindi, and Gujarati!"
    [] lang = "hi" -> "#2350#2376#2306 #2357#2366#2339#2368 #2361#2370#2306, #2310#2346#2325#2368 #2348#2361#2369#2349#2366#2359#2368 AI #2310#2357#2366#2332 #2360#2361#2366#2351#2325#2404 #2350#2376#2306 #2309#2306#2327#2381#2352#2375#2332#2368, #2361#2367#2306#2342#2368 #2324#2352 #2327#2369#2332#2352#2366#2340#2368 #2350#2375#2306 #2310#2346#2325#2368 #2350#2342#2342 #2325#2352 #2360#2325#2340#2368 #2361#2370#2306!"
    [] lang = "gu" -> "#2745#2753#2690 #2741#2750#2723#2752 #2715#2753#2690, #2724#2734#2750#2736#2752 #2732#2745#2753#2733#2750#2743#2752 AI #2741#2761#2695#2744 #2694#2744#2751#2744#2765#2719#2728#2765#2719. #2745#2753#2690 #2693#2690#2711#2765#2736#2759#2716#2752, #2745#2751#2728#2765#2726#2752 #2693#2728#2759 #2711#2753#2716#2736#2750#2724#2752#2734#2750#2690 #2724#2734#2750#2736#2752 #2734#2726#2726 #2709#2736#2752 #2742#2709#2753#2690 #2715#2753#2690!"
    [] OTHER -> "I am Vani, your multilingual AI voice assistant. I can help you in English, Hindi, and Gujarati!"

\* multi_model_handler.py 156-161
vision_prefix(lang) ==
  CASE lang = "hi" -> "#2350#2376#2306 #2342#2375#2326 #2352#2361#2366 #2361#2370#2306: "
    [] lang = "gu" -> "#2745#2753#2690 #2716#2763#2696 #2736#2745#2765#2735#2763 #2715#2753#2690: "
    [] OTHER -> "I can see: "

\* multi_model_handler.py 165-170
vision_apology(lang) ==
  CASE lang = "hi" -> "#2350#2376#2306 #2325#2376#2350#2352#2366 #2319#2325#2381#2360#2375#2360 #2344#2361#2368#2306 #2325#2352 #2346#2366 #2352#2361#2366 #2361#2370#2306"
    [] lang = "gu" -> "#2745#2753#2690 #2709#2759#2734#2759#2736#2750#2728#2759 #2701#2709#2765#2744#2759#2744 #2709#2736#2752 #2742#2709#2724#2763 #2728#2725#2752"
    [] OTHER -> "I cannot access the camera right now"

\* desktop_automation.py 211-213 (the text after the target)
closed_suffix(lang) ==
  CASE lang = "hi" -> " #2348#2306#2342 #2325#2352 #2342#2367#2351#2366"
    [] lang = "gu" -> " #2732#2690#2727 #2709#2736#2765#2735#2753#2690"
    [] OTHER -> ""

\* desktop_automation.py 215-217 (the text after the target)
not_running_suffix(lang) ==
  CASE lang = "hi" -> " #2330#2366#2354#2370 #2344#2361#2368#2306 #2361#2376"
    [] lang = "gu" -> " #2714#2750#2738#2753 #2728#2725#2752"
    [] OTHER -> " is not running"

\* desktop_automation.py 126-128 (the text after the URL)
opening_site_suffix(lang) ==
  CASE lang = "hi" -> " #2326#2379#2354 #2352#2361#2366 #2361#2370#2306"
    [] lang = "gu" -> " #2710#2763#2738#2752 #2736#2745#2765#2735#2763 #2715#2753#2690"
    [] OTHER -> ""

\* desktop_automation.py 158-160 (the text after the application)
opened_app_suffix(lang) ==
  CASE lang = "hi" -> " #2326#2379#2354 #2342#2367#2351#2366"
    [] lang = "gu" -> " #2710#2763#2738#2765#2735#2753#2690"
    [] OTHER -> ""
\* llm_handler.py 227-245
language_instructions(lang) ==
  CASE lang = "en" ->
       "You are Vani, a helpful AI voice assistant with web search capability.\nRespond ONLY in clear, natural English. Keep responses brief and conversational.\nIf web search results are provided, use them to give accurate, up-to-date information.\nCite sources when using web information."
    [] lang = "hi" ->
       "#2340#2369#2350 #2357#2366#2339#2368 #2361#2379, #2319#2325 #2360#2361#2366#2351#2325 AI #2309#2360#2367#2360#2381#2335#2375#2306#2335 #2332#2379 #2357#2375#2348 #2326#2379#2332 #2325#2352 #2360#2325#2340#2368 #2361#2376#2404\n#2325#2375#2357#2354 #2361#2367#2306#2342#2368 #2350#2375#2306 #2332#2357#2366#2348 #2342#2379#2404 #2360#2306#2325#2381#2359#2367#2346#2381#2340 #2324#2352 #2360#2381#2346#2359#2381#2335 #2313#2340#2381#2340#2352 #2342#2379#2404 #2309#2306#2327#2381#2352#2375#2332#2368 #2325#2366 #2346#2381#2352#2351#2379#2327 #2348#2367#2354#2381#2325#2369#2354 #2344 #2325#2352#2375#2306#2404\n#2309#2327#2352 #2357#2375#2348 #2326#2379#2332 #2346#2352#2367#2339#2366#2350 #2342#2367#2319 #2327#2319 #2361#2376#2306, #2340#2379 #2313#2344#2325#2366 #2313#2346#2351#2379#2327 #2325#2352#2325#2375 #2360#2335#2368#2325 #2332#2366#2344#2325#2366#2352#2368 #2342#2375#2306#2404"
    [] lang = "gu" ->
       "#2724#2734#2759 #2741#2750#2723#2752 #2715#2763, #2703#2709 #2744#2745#2750#2735#2709 AI #2694#2744#2751#2744#2765#2719#2728#2765#2719 #2716#2759 #2741#2759#2732 #2742#2763#2727 #2709#2736#2752 #2742#2709#2759 #2715#2759.\n#2731#2709#2765#2724 #2711#2753#2716#2736#2750#2724#2752#2734#2750#2690 #2716#2741#2750#2732 #2694#2730#2763#2404 #2744#2690#2709#2765#2743#2751#2730#2765#2724 #2693#2728#2759 #2744#2765#2730#2743#2765#2719 #2716#2741#2750#2732#2763 #2694#2730#2763#2404 #2693#2690#2711#2765#2736#2759#2716#2752#2728#2763 #2697#2730#2735#2763#2711 #2728 #2709#2736#2763#2404\n#2716#2763 #2741#2759#2732 #2742#2763#2727 #2730#2736#2751#2723#2750#2734#2763 #2694#2730#2741#2750#2734#2750#2690 #2694#2741#2759 #2715#2759, #2724#2763 #2724#2759#2728#2763 #2697#2730#2735#2763#2711 #2709#2736#2752#2728#2759 #2744#2714#2763#2719 #2734#2750#2745#2751#2724#2752 #2694#2730#2763."
    [] OTHER -> "You are Vani, a helpful AI assistant with web search. Respond ONLY in " \o lang \o "."

(***************************************************************************)
(* Events: what one operation did, in order                                *)
(***************************************************************************)
\* e: "record", "transcribe", "speak", "call", "create", "raise";
\* a: the text spoken, the adapter called, the coroutine created, the exception
Ev(e, a, lang) == [e |-> e, a |-> a, lang |-> lang]

\* the adapters called during the events, in order
Calls(events) == SelectSeq(events, LAMBDA x : x.e = "call")

Called(events, adapter) == \E i \in 1..Len(events) : events[i].e = "call" /\ events[i].a = adapter

\* the texts spoken during the events, in order
Spoken(events) == SelectSeq(events, LAMBDA x : x.e = "speak")

\* Python: seq[-n:]
LastN(seq, n) == IF Len(seq) <= n THEN seq ELSE SubSeq(seq, Len(seq) - n + 1, Len(seq))

(***************************************************************************)
(* What the backends answer during one operation                           *)
(***************************************************************************)
\* the outcome of one POST to the language model: a reply, a reply of white space,
\* an empty reply, a status other than 200, an exception (timeout, no connection)
LlmOutcomes == {"reply", "blank", "empty", "status500", "exception"}

\* the "response" field of the body the language model sends
LlmBody(outcome) ==
  CASE outcome = "reply" -> " Sure, I am here. \n"
    [] outcome = "blank" -> "  \n"
    [] OTHER -> ""

\* what a search adapter returns: a list of results or an empty list
SearchOutcomes == {"results", "empty"}

\* tr: the translation request; llm: the completion request; proc: whether a process
\* of the application runs; os: whether the operating system call succeeds; search:
\* what the search adapters find.  At most one of the five goes wrong during one
\* operation.
Faults(env) == {f \in {"tr", "llm", "proc", "os", "search"} :
                  \/ f = "tr" /\ env.tr # "reply"
                  \/ f = "llm" /\ env.llm # "reply"
                  \/ f = "proc" /\ ~env.proc
                  \/ f = "os" /\ ~env.os
                  \/ f = "search" /\ env.search # "results"}

Envs == {env \in [tr : LlmOutcomes, llm : LlmOutcomes, proc : BOOLEAN, os : BOOLEAN,
                  search : SearchOutcomes] :
           Cardinality(Faults(env)) <= 1}

(***************************************************************************)
(* Text to speech                                                          *)
(***************************************************************************)
\* TextToSpeechGoogle.speak: nothing for an empty or blank text; a value that is not
\* a str has no strip() and raises AttributeError before the try block
speak(text, language) ==
  IF ~Truthy(text) THEN [events |-> <<>>, raised |-> FALSE]
  ELSE IF text.kind # "str" THEN [events |-> <<Ev("raise", "AttributeError", language)>>, raised |-> TRUE]
  ELSE IF Strip(text.s) = "" THEN [events |-> <<>>, raised |-> FALSE]
  ELSE [events |-> <<Ev("speak", text.s, language)>>, raised |-> FALSE]

(***************************************************************************)
(* Vision router (multi_model_handler.py)                                  *)
(***************************************************************************)
\* VisionHandler.see_and_describe is a coroutine function: the call returns a
\* coroutine object and runs nothing of its body (no capture, no camera)
see_and_describe == Coroutine("see_and_describe")

TranslationText(language) == IF language = "hi" THEN "#2309#2344#2369#2357#2366#2342" ELSE "#2693#2728#2753#2741#2750#2726"

_translate_vision_response_any_language(english_text, target_language, tr) ==
  [events |-> <<Ev("call", "llm.translate", target_language)>>,
   ret |-> IF tr = "reply" THEN Str(TranslationText(target_language)) ELSE english_text]

\* _translate_vision_response: one POST to the text model for hi and gu; the English
\* text is kept for every other language, on an empty reply and on any exception
_translate_vision_response(english_text, target_language, tr) ==
  IF target_language \in {"hi", "gu"}
  THEN [events |-> <<Ev("call", "llm.translate", target_language)>>,
        ret |-> IF tr = "reply" THEN Str(TranslationText(target_language)) ELSE english_text]
  ELSE [events |-> <<>>, ret |-> english_text]

\* process_vision_command, a plain function: None when no vision is needed, else the
\* localized reply; t is time.time().  The result names the vision context it leaves.
process_vision_command(command, language, tr, vision_context, last_vision_time, t) ==
  IF ~Classified[command].vision
  THEN [ret |-> None, events |-> <<>>,
        vision_context |-> vision_context, last_vision_time |-> last_vision_time]
  ELSE LET description == see_and_describe
           created == <<Ev("create", "see_and_describe", language)>>
       IN IF Truthy(description)
          THEN LET translated == IF language # "en"
                                 THEN _translate_vision_response(description, language, tr)
                                 ELSE [events |-> <<>>, ret |-> description]
               IN [ret |-> Str(vision_prefix(language) \o Format(translated.ret)),
                   events |-> created \o translated.events,
                   vision_context |-> description, last_vision_time |-> t]
          ELSE [ret |-> Str(vision_apology(language)), events |-> created,
                vision_context |-> vision_context, last_vision_time |-> last_vision_time]

\* clear_vision_context
clear_vision_context == [vision_context |-> None, last_vision_time |-> 0]

(***************************************************************************)
(* Desktop automation (desktop_automation.py)                              *)
(***************************************************************************)
DomainLetters == "abcdefghijklmnopqrstuvwxyzABCDEFGHIJKLMNOPQRSTUVWXYZ0123456789-"

\* whether the character at position i is one of [a-zA-Z0-9-]; the digits of an
\* encoded character are not
IsDomainChar(cmd, i) ==
  /\ Contains(DomainLetters, SubSeq(cmd, i, i))
  /\ \A k \in 1..4 : i - k < 1 \/ SubSeq(cmd, i - k, i - k) # "#"

\* the top-level domain the regex alternation (com|org|net|io) takes after a dot at p
TldAt(cmd, p) ==
  IF SubSeq(cmd, p, p) # "." THEN ""
  ELSE CASE SubSeq(cmd, p + 1, p + 3) = "com" -> "com"
         [] SubSeq(cmd, p + 1, p + 3) = "org" -> "org"
         [] SubSeq(cmd, p + 1, p + 3) = "net" -> "net"
         [] SubSeq(cmd, p + 1, p + 2) = "io" -> "io"
         [] OTHER -> ""

\* the end of the run of domain characters that starts at i
RunEnd(cmd, i) ==
  CHOOSE p \in i..Len(cmd) :
    /\ \A q \in i..p : IsDomainChar(cmd, q)
    /\ p = Len(cmd) \/ ~IsDomainChar(cmd, p + 1)

\* re.search(r'([a-zA-Z0-9-]+\.(com|org|net|io))', cmd): the leftmost match, "" when none
DomainIn(cmd) ==
  LET starts == {i \in 1..Len(cmd) : IsDomainChar(cmd, i) /\ TldAt(cmd, RunEnd(cmd, i) + 1) # ""}
  IN IF starts = {} THEN ""
     ELSE LET i == CHOOSE j \in starts : \A k \in starts : j <= k
              p == RunEnd(cmd, i) + 1
          IN SubSeq(cmd, i, p + Len(TldAt(cmd, p)))

_open_website(cmd, lang, os) ==
  LET k == FirstKeyIn(websites, cmd)
      website == IF k # 0 THEN websites[k][2] ELSE DomainIn(cmd)
      url == IF StartsWith(website, "http") THEN website ELSE "https://" \o website
  IN IF website = "" THEN Str("I couldn't find which website to open")
     ELSE IF ~os THEN Str("Could not open " \o url)
     ELSE IF lang \in {"hi", "gu"} THEN Str(url \o opening_site_suffix(lang))
     ELSE Str("Opening " \o url)

_open_app(cmd, lang, os) ==
  IF _has_website(cmd) THEN None
  ELSE LET k == FirstKeyIn(apps, cmd)
       IN IF k = 0 THEN Str("I couldn't find which application to open")
          ELSE IF ~os THEN Str("Could not open " \o apps[k][1])
          ELSE IF lang \in {"hi", "gu"} THEN Str(apps[k][1] \o opened_app_suffix(lang))
          ELSE Str("Opening " \o apps[k][1])

\* proc: whether a process whose name or command line holds the process name runs
_close_app_sync(cmd, lang, proc) ==
  LET k == FirstKeyIn(proc_map, cmd)
  IN IF k = 0 THEN Str("I couldn't find which application to close")
     ELSE IF proc
          THEN IF lang \in {"hi", "gu"} THEN Str(proc_map[k][1] \o closed_suffix(lang))
               ELSE Str("Closed " \o proc_map[k][1])
          ELSE Str(proc_map[k][1] \o not_running_suffix(lang))

_screenshot(lang, os) ==
  IF ~os THEN Str("Could not take screenshot")
  ELSE CASE lang = "hi" -> Str("#2360#2381#2325#2381#2352#2368#2344#2358#2377#2335 #2351#2361#2366#2305 #2360#2361#2375#2332#2366: ~/Pictures/screenshot.png")
         [] lang = "gu" -> Str("#2744#2765#2709#2765#2736#2752#2728#2742#2763#2719 #2693#2745#2752#2690 #2744#2750#2714#2741#2765#2735#2763: ~/Pictures/screenshot.png")
         [] OTHER -> Str("Screenshot saved to ~/Pictures/screenshot.png")

_system_info(lang, os) ==
  IF ~os THEN Str("Could not get system info") ELSE Str("CPU, memory and battery readings")

_volume(cmd, lang, os) ==
  IF ~os /\ (Contains(cmd, "up") \/ Contains(cmd, "increase") \/ Contains(cmd, "down")
             \/ Contains(cmd, "decrease") \/ Contains(cmd, "mute"))
  THEN Str("Volume command not recognized")
  ELSE IF Contains(cmd, "up") \/ Contains(cmd, "increase")
  THEN IF lang = "en" THEN Str("Volume increased") ELSE Str("#2310#2357#2366#2332#2364 #2348#2338#2364#2366 #2342#2368")
  ELSE IF Contains(cmd, "down") \/ Contains(cmd, "decrease")
  THEN IF lang = "en" THEN Str("Volume decreased") ELSE Str("#2310#2357#2366#2332#2364 #2325#2350 #2325#2352 #2342#2368")
  ELSE IF Contains(cmd, "mute")
  THEN IF lang = "en" THEN Str("Volume muted") ELSE Str("#2310#2357#2366#2332#2364 #2348#2306#2342 #2325#2352 #2342#2368")
  ELSE Str("Volume command not recognized")

\* which branch of DesktopAutomation.execute a command takes, "" when none
DesktopBranch(command) ==
  LET cmd == DesktopCmd(command)
  IN CASE _has_website(cmd) -> "website"
       [] _is_open_app(cmd) -> "open"
       [] _is_close_app(cmd) -> "close"
       [] Contains(cmd, "screenshot") -> "screenshot"
       [] Contains(cmd, "battery") \/ Contains(cmd, "system") -> "system"
       [] Contains(cmd, "volume") -> "volume"
       [] OTHER -> ""

\* DesktopAutomation.execute, a coroutine function (the second definition of the
\* name replaces the first): the value the awaited call returns and what it did
execute(command, lang, env) ==
  LET cmd == DesktopCmd(command)
      branch == DesktopBranch(command)
      ret == CASE branch = "website" -> _open_website(cmd, lang, env.os)
               [] branch = "open" -> _open_app(cmd, lang, env.os)
               [] branch = "close" -> _close_app_sync(cmd, lang, env.proc)
               [] branch = "screenshot" -> _screenshot(lang, env.os)
               [] branch = "system" -> _system_info(lang, env.os)
               [] branch = "volume" -> _volume(cmd, lang, env.os)
               [] OTHER -> None
  IN [ret |-> ret,
      events |-> <<Ev("call", "desktop.execute", lang)>>
                 \o IF branch = "close" THEN <<Ev("call", "desktop._close_app_sync", lang)>> ELSE <<>>]

(***************************************************************************)
(* Language-model router (llm_handler.py)                                  *)
(***************************************************************************)
Turn(role, content, language) == [role |-> role, content |-> content, language |-> language]

\* the history lines of _build_prompt (253-260): the last 6 entries, those of the
\* request language only
RECURSIVE HistoryLines(_, _)
HistoryLines(messages, language) ==
  IF messages = <<>> THEN ""
  ELSE LET message == Head(messages)
           line == IF message.language # language THEN ""
                   ELSE IF message.role = "user" THEN "User: " \o message.content \o "\n"
                   ELSE "Assistant: " \o message.content \o "\n"
       IN line \o HistoryLines(Tail(messages), language)

_build_prompt_context_last(history, user_input, language, web_context) ==
  language_instructions(language) \o "\n\n"
  \o HistoryLines(LastN(history, 6), language)
  \o (IF web_context # ""
      THEN web_context \o "\n\nUse the above web search information to answer the question.\n\n"
      ELSE "")
  \o "User: " \o user_input \o "\n"
  \o "Assistant: "

_build_prompt(history, user_input, language, web_context) ==
  language_instructions(language) \o "\n\n"
  \o (IF web_context # ""
      THEN web_context \o "\n\nUse the above web search information to answer the question.\n\n"
      ELSE "")
  \o HistoryLines(LastN(history, 6), language)
  \o "User: " \o user_input \o "\n"
  \o "Assistant: "

\* variants of the update, for testing what the properties of the log detect: one
\* keeps the oldest 20 entries, one cuts the log to its last 19
UpdateHistory_keep_oldest(history, user_input, assistant_response, language) ==
  LET appended == history \o <<Turn("user", user_input, language),
                               Turn("assistant", assistant_response, language)>>
  IN IF Len(appended) > 20 THEN SubSeq(appended, 1, 20) ELSE appended

UpdateHistory_cut_19(history, user_input, assistant_response, language) ==
  LET appended == history \o <<Turn("user", user_input, language),
                               Turn("assistant", assistant_response, language)>>
  IN IF Len(appended) > 20 THEN LastN(appended, 19) ELSE appended

\* 193-206: both turns of the exchange are appended, then the log is cut to its
\* last 20 entries
UpdateHistory(history, user_input, assistant_response, language) ==
  LET appended == history \o <<Turn("user", user_input, language),
                               Turn("assistant", assistant_response, language)>>
  IN IF Len(appended) > 20 THEN LastN(appended, 20) ELSE appended

Completion_uncaught(history, user_input, language, web_context, llm) ==
  LET post == <<Ev("call", "llm.generate", _build_prompt(history, user_input, language, web_context))>>
      assistant_response == Strip(LlmBody(llm))
  IN IF llm = "status500" THEN [ret |-> None, events |-> post, history |-> history]
     ELSE IF llm = "exception"
     THEN [ret |-> [kind |-> "raised", s |-> "ClientError"],
           events |-> post \o <<Ev("raise", "ClientError", language)>>, history |-> history]
     ELSE IF assistant_response # ""
     THEN [ret |-> Str(assistant_response), events |-> post,
           history |-> UpdateHistory(history, user_input, assistant_response, language)]
     ELSE [ret |-> None, events |-> post, history |-> history]

\* 165-218: the prompt, the one POST to the language model and what follows it.
\* A status other than 200 returns None at 186; an exception is caught at 214.
Completion(history, user_input, language, web_context, llm) ==
  LET prompt == _build_prompt(history, user_input, language, web_context)
      post == <<Ev("call", "llm.generate", prompt)>>
      assistant_response == Strip(LlmBody(llm))
  IN IF llm = "status500" THEN [ret |-> None, events |-> post, history |-> history]
     ELSE IF llm = "exception"
     THEN [ret |-> None, events |-> post \o <<Ev("raise", "ClientError", language)>>,
           history |-> history]
     ELSE IF assistant_response # ""
     THEN [ret |-> Str(assistant_response), events |-> post,
           history |-> UpdateHistory(history, user_input, assistant_response, language)]
     ELSE [ret |-> None, events |-> post, history |-> history]

\* 136-163: the search adapter chosen for the utterance, "" when none is.
\* search_news, _search_wikipedia and search are plain functions that return a list.
SearchAdapter(user_input) ==
  CASE Classified[user_input].news -> "web_search.search_news"
    [] Classified[user_input].knowledge -> "web_search._search_wikipedia"
    [] Classified[user_input].web -> "web_search.search"
    [] OTHER -> ""

\* 130-218, the lines after the vision check: the desktop command, the search, the
\* completion.  The search adapter runs and returns its list (of results, or empty);
\* awaiting the list raises TypeError, which is caught at 214.
AfterVision(history, user_input, language, env) ==
  LET adapter == SearchAdapter(user_input)
      Completed(desktop, done) ==
        [ret |-> done.ret, events |-> desktop.events \o done.events, history |-> done.history]
      Searched(desktop) ==
        IF adapter # ""
        THEN [ret |-> None,
              events |-> desktop.events \o <<Ev("call", adapter, language),
                                             Ev("return", adapter, env.search),
                                             Ev("raise", "TypeError", language)>>,
              history |-> history]
        ELSE Completed(desktop, Completion(history, user_input, language, "", env.llm))
      Executed(desktop) ==
        IF Truthy(desktop.ret)
        THEN [ret |-> desktop.ret, events |-> desktop.events, history |-> history]
        ELSE Searched(desktop)
  IN Executed(execute(user_input, language, env))

\* OllamaHandler.generate_response, awaited (119-218).  process_vision_command is a
\* plain function: it runs, and `await` on the None or str it returns raises
\* TypeError, caught at 214, so the call returns None.  h is the handler's state.
generate_response(h, user_input, language, env, t) ==
  LET Seen(vision) == [h EXCEPT !.current_language = language,
                                !.vision_context = vision.vision_context,
                                !.last_vision_time = vision.last_vision_time]
      VisionCalled(vision) == <<Ev("call", "process_vision_command", language)>> \o vision.events
      Continued(vision, rest) ==
        [ret |-> rest.ret, events |-> VisionCalled(vision) \o rest.events,
         h |-> [Seen(vision) EXCEPT !.conversation_history = rest.history]]
      Checked(vision) ==
        IF ~Awaitable(vision.ret)
        THEN [ret |-> None,
              events |-> VisionCalled(vision) \o <<Ev("raise", "TypeError", language)>>,
              h |-> Seen(vision)]
        ELSE Continued(vision, AfterVision(h.conversation_history, user_input, language, env))
  IN Checked(process_vision_command(user_input, language, env.tr,
                                    h.vision_context, h.last_vision_time, t))

\* OllamaHandler.reset_conversation (267-271)
reset_conversation(h) == [h EXCEPT !.conversation_history = <<>>, !.current_language = "en"]

LoopContinues_unless_raised(raised) == ~raised

\* main.py 104-124: the loop goes on after the reply is spoken, and after an
\* exception too (except Exception: continue)
LoopContinues(raised) == TRUE

LoopBody_speak_first(h, audio, heard) ==
  [branch |-> "no audio",
   events |-> <<Ev("speak", error_msg("en"), "en"), Ev("record", "", "")>>,
   ret |-> None, h |-> h, running |-> TRUE]

(***************************************************************************)
(* The main loop (main.py)                                                 *)
(***************************************************************************)
\* One pass of the loop body of VoiceAssistant.run (51-124).  audio: whether the
\* recording gave audio; heard: what the transcription gave, None or <<text,
\* language>>.  generate_response is called without await (101), so the call
\* returns a coroutine object and nothing of the router runs.
LoopBody(h, audio, heard) ==
  LET recorded == <<Ev("record", "", "")>>
      transcribed == recorded \o <<Ev("transcribe", "", "")>>
  IN IF ~audio
     THEN [branch |-> "no audio", events |-> recorded, ret |-> None, h |-> h, running |-> TRUE]
     ELSE IF heard = <<>>
     THEN [branch |-> "no speech", events |-> transcribed, ret |-> None, h |-> h, running |-> TRUE]
     ELSE LET text == heard[1]
              detected_language == heard[2]
          IN IF Classified[text].identity
             THEN LET said == speak(Str(introductions(detected_language)), detected_language)
                  IN [branch |-> "identity", events |-> transcribed \o said.events, ret |-> None,
                      h |-> h, running |-> TRUE]
             ELSE IF Classified[text].exit
             THEN LET said == speak(Str(goodbye_msg(detected_language)), detected_language)
                  IN [branch |-> "exit", events |-> transcribed \o said.events, ret |-> None,
                      h |-> h, running |-> FALSE]
             ELSE IF Classified[text].reset
             THEN LET said == speak(Str(reset_msg(detected_language)), detected_language)
                  IN [branch |-> "reset", events |-> transcribed \o said.events, ret |-> None,
                      h |-> reset_conversation(h), running |-> TRUE]
             ELSE LET response == Coroutine("generate_response")
                      said == IF Truthy(response)
                              THEN speak(response, detected_language)
                              ELSE speak(Str(error_msg(detected_language)), detected_language)
                  IN [branch |-> "respond", events |-> transcribed \o said.events,
                      ret |-> response, h |-> h, running |-> LoopContinues(said.raised)]
(***************************************************************************)
(* State                                                                   *)
(***************************************************************************)
VARIABLES
  conversation_history,   \* OllamaHandler.conversation_history
  current_language,       \* OllamaHandler.current_language
  vision_context,         \* MultiModelHandler.vision_context
  last_vision_time,       \* MultiModelHandler.last_vision_time
  now,                    \* time.time()
  running,                \* whether the loop of VoiceAssistant.run goes on
  turn,                   \* the last operation: its inputs, what it did, what it returned
  exchanges,              \* the turns of the exchanges completed since the last reset
  camera,                 \* VisionHandler.camera
  locked,                 \* VisionHandler._camera_lock: whether it is held
  waiters,                \* VisionHandler._camera_lock: the callers waiting, oldest first
  woken,                  \* whether the oldest waiter has been given the lock and not run yet
  pc,                     \* where each caller of see_and_describe is
  multi_model_history     \* MultiModelHandler.conversation_history

\* the state of the VisionHandler
camera_vars == <<camera, locked, waiters, woken, pc>>

\* what the main loop and the router leave alone
vision_vars == <<camera_vars, multi_model_history>>

vars == <<conversation_history, current_language, vision_context, last_vision_time, now,
          running, turn, exchanges, vision_vars>>

Handler == [conversation_history |-> conversation_history, current_language |-> current_language,
            vision_context |-> vision_context, last_vision_time |-> last_vision_time]

NoTurn == [op |-> "none", text |-> "", lang |-> "", branch |-> "", events |-> <<>>, ret |-> None]

Init ==
  /\ conversation_history = <<>>
  /\ current_language = "en"
  /\ vision_context = None
  /\ last_vision_time = 0
  /\ now = 1
  /\ running = TRUE
  /\ turn = NoTurn
  /\ exchanges = <<>>
  /\ camera = "None"
  /\ locked = FALSE
  /\ waiters = <<>>
  /\ woken = FALSE
  /\ pc = [t \in Tasks |-> "idle"]
  /\ multi_model_history = <<>>

\* what an operation leaves: the handler's state and the record of the operation
Returned(op, text, lang, branch, done) ==
  /\ conversation_history' = done.h.conversation_history
  /\ current_language' = done.h.current_language
  /\ vision_context' = done.h.vision_context
  /\ last_vision_time' = done.h.last_vision_time
  /\ turn' = [op |-> op, text |-> text, lang |-> lang, branch |-> branch,
              events |-> done.events, ret |-> done.ret]

SetHandler(h) ==
  /\ conversation_history' = h.conversation_history
  /\ current_language' = h.current_language
  /\ vision_context' = h.vision_context
  /\ last_vision_time' = h.last_vision_time

\* one pass of the main loop
MainLoop ==
  /\ running
  /\ \E audio \in BOOLEAN, heard \in Heard :
       LET Passed(pass) ==
             /\ Returned("main", IF audio /\ heard # <<>> THEN heard[1] ELSE "",
                         IF audio /\ heard # <<>> THEN heard[2] ELSE "", pass.branch, pass)
             /\ running' = pass.running
       IN Passed(LoopBody(Handler, audio, heard))
  /\ UNCHANGED <<now, exchanges, vision_vars>>

\* Ctrl+C: _signal_handler stops the speech and exits the process (169-173)
KeyboardInterrupt ==
  /\ running
  /\ running' = FALSE
  /\ turn' = [NoTurn EXCEPT !.op = "interrupt"]
  /\ UNCHANGED <<conversation_history, current_language, vision_context, last_vision_time,
                 now, exchanges, vision_vars>>

\* a caller awaits generate_response, as test_async.py does (31)
AwaitGenerateResponse ==
  \E user_input \in Utterances, language \in Languages, env \in Envs :
    /\ Returned("await", user_input, language, env.llm,
                generate_response(Handler, user_input, language, env, now))
    /\ UNCHANGED <<now, running, exchanges, vision_vars>>

\* time passes
Tick ==
  /\ now < MaxTime
  /\ now' = now + 1
  /\ UNCHANGED <<conversation_history, current_language, vision_context, last_vision_time,
                 running, turn, exchanges, vision_vars>>

Next == MainLoop \/ KeyboardInterrupt \/ AwaitGenerateResponse \/ Tick

Spec == Init /\ [][Next]_vars

(***************************************************************************)
(* The completion step on its own                                          *)
(***************************************************************************)
\* The lines 165-218 of generate_response, applied to any exchange: no execution of
\* generate_response gets there (the await at 125 raises first), so the log and its
\* cap are checked on this step and on reset_conversation.
HistoryInputs == {<<Hello, "en">>, <<"what is python", "hi">>}

CompletionBounded(max_exchanges) ==
  /\ \E input \in HistoryInputs, llm \in LlmOutcomes :
       LET done == Completion(conversation_history, input[1], input[2], "", llm)
       IN /\ Truthy(done.ret) => Len(exchanges) < 2 * max_exchanges
          /\ conversation_history' = done.history
          /\ current_language' = input[2]
          /\ turn' = [op |-> "completion", text |-> input[1], lang |-> input[2], branch |-> llm,
                      events |-> done.events, ret |-> done.ret]
          /\ exchanges' = IF Truthy(done.ret)
                          THEN exchanges \o <<Turn("user", input[1], input[2]),
                                              Turn("assistant", done.ret.s, input[2])>>
                          ELSE exchanges
  /\ UNCHANGED <<vision_context, last_vision_time, now, running, vision_vars>>

CompletionStep == CompletionBounded(MaxExchanges)

ResetStep ==
  /\ SetHandler(reset_conversation(Handler))
  /\ turn' = [NoTurn EXCEPT !.op = "reset"]
  /\ exchanges' = <<>>
  /\ UNCHANGED <<now, running, vision_vars>>

NextHistory == CompletionStep \/ ResetStep

SpecHistory == Init /\ [][NextHistory]_vars


(***************************************************************************)
(* VisionHandler: the camera, its lock and the callers of see_and_describe *)
(* (SpecCamera, SpecCameraFair).  camera is "None", "open" (a VideoCapture *)
(* that is opened) or "unopened" (a VideoCapture that could not be opened).*)
(* A caller is idle, waiting for the lock, in _capture_frame_sync at its   *)
(* start or before its read, back from it with or without a frame, or      *)
(* awaiting analyze_image.                                                 *)
(***************************************************************************)
Description == "a desk with a laptop"

\* what analyze_image can meet: a description, a non-200 status, an empty
\* description, an exception
AnalysisOutcomes == {"description", "status500", "empty", "exception"}

\* what cv2.VideoCapture(CAMERA_INDEX) can do in _start_camera_sync
OpenOutcomes == {"opened", "not_opened", "exception"}

\* what camera.read() can give for an open camera
ReadOutcomes == {"got_frame", "no_frame"}

CanAcquire_always(is_locked, waiting) == TRUE

\* asyncio.Lock.acquire (async with self._camera_lock): the lock is taken at once
\* when it is free and nobody waits for it
CanAcquire(is_locked, waiting) == ~is_locked /\ waiting = <<>>

stop_camera_keep(cam) == cam

\* stop_camera: a handle is released and set to None
stop_camera(cam) == IF cam # "None" THEN "None" ELSE cam

\* see_and_describe returns: the finally block has stopped the camera
Return(t, outcome, ret) ==
  /\ camera' = stop_camera(camera)
  /\ pc' = [pc EXCEPT ![t] = "idle"]
  /\ turn' = [NoTurn EXCEPT !.op = "see_and_describe", !.branch = outcome, !.ret = ret]

assistant_vars == <<conversation_history, current_language, vision_context,
                    last_vision_time, now, running, exchanges, multi_model_history>>

\* a caller enters see_and_describe and capture_frame, and takes the lock or waits
SeeAndDescribe(t) ==
  /\ pc[t] = "idle"
  /\ IF CanAcquire(locked, waiters)
     THEN /\ locked' = TRUE
          /\ pc' = [pc EXCEPT ![t] = "start"]
          /\ UNCHANGED waiters
     ELSE /\ waiters' = Append(waiters, t)
          /\ pc' = [pc EXCEPT ![t] = "waiting"]
          /\ UNCHANGED locked
  /\ UNCHANGED <<camera, woken, turn, assistant_vars>>

\* the oldest waiter, woken by a release, takes the lock and hands
\* _capture_frame_sync to the executor
LockAcquired(t) ==
  /\ pc[t] = "waiting"
  /\ woken
  /\ Head(waiters) = t
  /\ waiters' = Tail(waiters)
  /\ woken' = FALSE
  /\ locked' = TRUE
  /\ pc' = [pc EXCEPT ![t] = "start"]
  /\ UNCHANGED <<camera, turn, assistant_vars>>

\* executor thread, _capture_frame_sync 100-102 and _start_camera_sync: an open
\* camera is kept, else a VideoCapture is made
StartCamera(t) ==
  /\ pc[t] = "start"
  /\ IF camera = "open"
     THEN /\ pc' = [pc EXCEPT ![t] = "read"]
          /\ UNCHANGED camera
     ELSE \E o \in OpenOutcomes :
            /\ camera' = CASE o = "opened" -> "open"
                           [] o = "not_opened" -> "unopened"
                           [] OTHER -> camera
            /\ pc' = [pc EXCEPT ![t] = IF o = "opened" THEN "read" ELSE "no_frame"]
  /\ UNCHANGED <<locked, waiters, woken, turn, assistant_vars>>

\* executor thread, _capture_frame_sync 104-118: camera.read(); a camera that was
\* stopped meanwhile gives an exception and so no frame
ReadFrame(t) ==
  /\ pc[t] = "read"
  /\ \E o \in ReadOutcomes :
       pc' = [pc EXCEPT ![t] = IF camera = "open" THEN o ELSE "no_frame"]
  /\ UNCHANGED <<camera, locked, waiters, woken, turn, assistant_vars>>

\* the caller is resumed with the result of the executor: the lock is released and
\* its oldest waiter woken; without a frame see_and_describe returns None, with one
\* it awaits analyze_image
Resume(t) ==
  /\ pc[t] \in ReadOutcomes
  /\ locked' = FALSE
  /\ woken' = (waiters # <<>>)
  /\ IF pc[t] = "no_frame"
     THEN Return(t, "no_frame", None)
     ELSE /\ pc' = [pc EXCEPT ![t] = "analyze"]
          /\ UNCHANGED <<camera, turn>>
  /\ UNCHANGED <<waiters, assistant_vars>>

\* analyze_image has ended: see_and_describe returns its description or None
AnalyzeImage(t) ==
  /\ pc[t] = "analyze"
  /\ \E o \in AnalysisOutcomes :
       Return(t, o, IF o = "description" THEN Str(Description) ELSE None)
  /\ UNCHANGED <<locked, waiters, woken, assistant_vars>>

NextCamera ==
  \E t \in Tasks : \/ SeeAndDescribe(t)
                   \/ LockAcquired(t)
                   \/ StartCamera(t)
                   \/ ReadFrame(t)
                   \/ Resume(t)
                   \/ AnalyzeImage(t)

SpecCamera == Init /\ [][NextCamera]_vars

\* the event loop runs a caller that can run, and the executor ends what it started
SpecCameraFair ==
  /\ SpecCamera
  /\ \A t \in Tasks : /\ WF_vars(LockAcquired(t))
                      /\ WF_vars(StartCamera(t))
                      /\ WF_vars(ReadFrame(t))
                      /\ WF_vars(Resume(t))
                      /\ WF_vars(AnalyzeImage(t))

(***************************************************************************)
(* The vision classifier on its own                                        *)
(***************************************************************************)
\* utterances put together from an opening, a phrase and an ending
Openings == {"", "Did you ", "what ", "can you ", "please "}

Phrases ==
  {"watch the game", "see you later", "hello there", "look at this", "count the people",
   "the camera", "tell me a joke", "show me", "view the report", "open the door",
   "#2342#2375#2326#2379"}

Endings == {"", "?"}

\* a Python bool
Bool(b) == [kind |-> "bool", s |-> IF b THEN "True" ELSE "False"]

\* MultiModelHandler._needs_vision applied to an utterance
NeedsVisionStep ==
  /\ \E opening \in Openings, phrase \in Phrases, ending \in Endings :
       turn' = [NoTurn EXCEPT !.op = "_needs_vision",
                              !.text = opening \o phrase \o ending,
                              !.ret = Bool(_needs_vision(opening \o phrase \o ending))]
  /\ UNCHANGED <<conversation_history, current_language, vision_context, last_vision_time,
                 now, running, exchanges, vision_vars>>

SpecClassify == Init /\ [][NeedsVisionStep]_vars
(***************************************************************************)
(* The question put to the vision model, on its own                        *)
(***************************************************************************)
\* utterances as the transcriber hands them over (stripped, stt_handler.py 69)
QuestionOpenings ==
  {"", "What ", "please ", "how many people ", "count the ", "#2325#2381#2351#2366 "}

QuestionPhrases ==
  {"time is it", "is on the screen", "color is the sign", "do you see", "is this",
   "about the weather", "read the price label", "kind of animal is that", "look around",
   "are they doing", "#2352#2306#2327", "who is at the door", "whatever", "can you count"}

\* MultiModelHandler._generate_vision_question applied to an utterance
GenerateVisionQuestionStep ==
  /\ \E opening \in QuestionOpenings, phrase \in QuestionPhrases, ending \in Endings :
       turn' = [NoTurn EXCEPT !.op = "_generate_vision_question",
                              !.text = opening \o phrase \o ending,
                              !.ret = Str(_generate_vision_question(opening \o phrase \o ending))]
  /\ UNCHANGED <<conversation_history, current_language, vision_context, last_vision_time,
                 now, running, exchanges, vision_vars>>

SpecQuestion == Init /\ [][GenerateVisionQuestionStep]_vars

(***************************************************************************)
(* process_vision_command called on its own (SpecVision)                   *)
(***************************************************************************)
\* what the camera and the vision backend have to give for a request: a description,
\* no frame, a non-200 status, an empty description, an exception
CameraOutcomes == {"description", "no_frame", "status500", "empty", "exception"}

\* the outcomes for which see_and_describe, when it runs, returns None
FailedCaptures == CameraOutcomes \ {"description"}

\* one call of MultiModelHandler.process_vision_command(command, language); cam is
\* what the camera and the vision backend hold for it, kept as the branch of the turn
ProcessVisionCommand(commands, languages, translations, cams) ==
  /\ now <= MaxTime
  /\ \E command \in commands, language \in languages, tr \in translations, cam \in cams :
       LET Done(done) ==
             /\ turn' = [NoTurn EXCEPT !.op = "process_vision_command", !.text = command,
                                       !.lang = language, !.branch = cam,
                                       !.events = done.events, !.ret = done.ret]
             /\ vision_context' = done.vision_context
             /\ last_vision_time' = done.last_vision_time
       IN Done(process_vision_command(command, language, tr, vision_context,
                                      last_vision_time, now))
  /\ UNCHANGED <<conversation_history, current_language, now, running, exchanges,
                 vision_vars>>

ProcessVisionCommandStep ==
  ProcessVisionCommand(Utterances, Languages, LlmOutcomes, CameraOutcomes)

NextVision == ProcessVisionCommandStep \/ Tick

SpecVision == Init /\ [][NextVision]_vars

(***************************************************************************)
(* The vision context in the prompts (SpecFreshness)                       *)
(***************************************************************************)
\* multi_model_handler.py 332: the age in seconds from which a description is stale
FreshSeconds == 60

\* 319-324
vision_system_instruction(language) ==
  CASE language = "hi" -> "#2340#2369#2350 #2319#2325 #2360#2361#2366#2351#2325 AI #2361#2379 #2332#2379 #2342#2371#2358#2381#2351 #2332#2366#2344#2325#2366#2352#2368 #2325#2379 #2360#2350#2333 #2360#2325#2340#2366 #2361#2376#2404\n\n"
    [] language = "gu" -> "#2724#2734#2759 #2703#2709 #2744#2745#2750#2735#2709 AI #2715#2763 #2716#2759 #2726#2765#2736#2742#2765#2735 #2734#2750#2745#2751#2724#2752 #2744#2734#2716#2752 #2742#2709#2759 #2715#2759.\n\n"
    [] OTHER -> "You are a helpful AI assistant with access to visual information.\n\n"

\* 333-338: the line that holds the vision context
vision_line(language, context) ==
  (CASE language = "hi" -> "#2342#2371#2358#2381#2351 #2332#2366#2344#2325#2366#2352#2368 (#2325#2376#2350#2352#2366): "
     [] language = "gu" -> "#2726#2765#2736#2742#2765#2735 #2734#2750#2745#2751#2724#2752 (#2709#2759#2734#2759#2736#2750): "
     [] OTHER -> "Visual information (from camera): ")
  \o Format(context) \o "\n\n"

\* 341-345: the lines of the messages, whatever their language
RECURSIVE AllLines(_)
AllLines(messages) ==
  IF messages = <<>> THEN ""
  ELSE (IF Head(messages).role = "user" THEN "User: " ELSE "Assistant: ")
       \o Head(messages).content \o "\n" \o AllLines(Tail(messages))

\* 316-351: the prompt of generate_with_vision_context at time t
vision_prompt(history, user_input, language, context, context_time, t) ==
  vision_system_instruction(language)
  \o (IF Truthy(context) /\ t - context_time < FreshSeconds
      THEN vision_line(language, context) ELSE "")
  \o AllLines(LastN(history, 4))
  \o "User: " \o user_input \o "\n"
  \o "Assistant: "

\* 372-390: both turns are appended and the log cut to its last 10 entries
UpdateVisionHistory(history, user_input, assistant_response, language) ==
  LET appended == history \o <<Turn("user", user_input, language),
                               Turn("assistant", assistant_response, language)>>
  IN IF Len(appended) > 10 THEN LastN(appended, 10) ELSE appended

\* generate_with_vision_context: one POST; raise_for_status and every other
\* exception end in None at 394-396
generate_with_vision_context(history, user_input, language, context, context_time, t, llm) ==
  LET post == <<Ev("call", "llm.generate",
                   vision_prompt(history, user_input, language, context, context_time, t))>>
      assistant_response == Strip(LlmBody(llm))
  IN IF llm \in {"status500", "exception"}
     THEN [ret |-> None, events |-> post, history |-> history]
     ELSE IF assistant_response # ""
     THEN [ret |-> Str(assistant_response), events |-> post,
           history |-> UpdateVisionHistory(history, user_input, assistant_response, language)]
     ELSE [ret |-> None, events |-> post, history |-> history]

\* the requests made of the two prompt assemblers
PromptLanguages == {"en", "hi"}

\* the user stays silent for about a minute
Delays == {FreshSeconds - 1, FreshSeconds, FreshSeconds + 1}

Elapse ==
  /\ \E d \in Delays : /\ now + d <= MaxClock
                       /\ now' = now + d
  /\ UNCHANGED <<conversation_history, current_language, vision_context, last_vision_time,
                 running, turn, exchanges, vision_vars>>

\* one call of MultiModelHandler.generate_with_vision_context(Hello, language)
GenerateWithVisionContextStep ==
  /\ \E language \in PromptLanguages, llm \in LlmOutcomes :
       LET Done(done) ==
             /\ Truthy(done.ret) => Len(multi_model_history) < 2 * MaxVisionChats
             /\ turn' = [NoTurn EXCEPT !.op = "generate_with_vision_context",
                                       !.text = Hello, !.lang = language, !.branch = llm,
                                       !.events = done.events, !.ret = done.ret]
             /\ multi_model_history' = done.history
       IN Done(generate_with_vision_context(multi_model_history, Hello, language,
                                            vision_context, last_vision_time, now, llm))
  /\ UNCHANGED <<conversation_history, current_language, vision_context, last_vision_time,
                 now, running, exchanges, camera_vars>>

\* a search context, as format_search_results lays it out (without its pictographs)
SearchContext ==
  "Search Results:\n\n\n1. Python\n   Python is a programming language...\n   Source: Wikipedia\n\n\nUse this information to provide an accurate answer.\n"

WebContexts == {"", SearchContext}

\* one call of OllamaHandler._build_prompt(Hello, language, web_context), the prompt
\* assembler of generate_response; the prompt is what the turn returns, the search
\* context is kept as its branch
BuildPromptStep ==
  /\ \E language \in PromptLanguages, web_context \in WebContexts :
       turn' = [NoTurn EXCEPT !.op = "_build_prompt", !.text = Hello, !.lang = language,
                              !.branch = web_context,
                              !.ret = Str(_build_prompt(conversation_history, Hello,
                                                        language, web_context))]
  /\ UNCHANGED <<conversation_history, current_language, vision_context, last_vision_time,
                 now, running, exchanges, vision_vars>>

NextFreshness ==
  \/ ProcessVisionCommand({"what do you see", Hello}, PromptLanguages, {"reply"},
                          {"description"})
  \/ Tick
  \/ Elapse
  \/ GenerateWithVisionContextStep
  \/ BuildPromptStep

SpecFreshness == Init /\ [][NextFreshness]_vars

(***************************************************************************)
(* _build_prompt over logs of two languages (SpecPrompt)                   *)
(***************************************************************************)
NextPrompt == CompletionBounded(MaxPromptExchanges) \/ BuildPromptStep \/ ResetStep

SpecPrompt == Init /\ [][NextPrompt]_vars

(***************************************************************************)
(* generate_response after its vision check (SpecRouter): lines 130-218,   *)
(* run as they are once process_vision_command has given None             *)
(***************************************************************************)
RouterInputs == {Hello, "what is python", StockQuestion, Weather, "latest news", "open youtube"}

AfterVisionStep ==
  /\ \E user_input \in RouterInputs, language \in PromptLanguages, env \in Envs :
       LET Done(done) ==
             /\ Truthy(done.ret) /\ done.history # conversation_history =>
                  Len(conversation_history) < 2 * MaxRouterExchanges
             /\ conversation_history' = done.history
             /\ current_language' = language
             /\ turn' = [op |-> "after_vision", text |-> user_input, lang |-> language,
                         branch |-> env.llm, events |-> done.events, ret |-> done.ret]
       IN Done(AfterVision(conversation_history, user_input, language, env))
  /\ UNCHANGED <<vision_context, last_vision_time, now, running, exchanges, vision_vars>>

NextRouter == AfterVisionStep \/ ResetStep

SpecRouter == Init /\ [][NextRouter]_vars

(***************************************************************************)
(* Properties of the conversation log (SpecHistory)                        *)
(***************************************************************************)
FailedOutcomes == {"blank", "empty", "status500", "exception"}

LogIsPairs ==
  /\ Len(conversation_history) % 2 = 0
  /\ \A i \in 1..Len(conversation_history) :
       i % 2 = 1 =>
         /\ conversation_history[i].role = "user"
         /\ conversation_history[i + 1].role = "assistant"
         /\ conversation_history[i + 1].language = conversation_history[i].language
         /\ \E j \in 1..Len(exchanges) :
              /\ j % 2 = 1
              /\ exchanges[j] = conversation_history[i]
              /\ exchanges[j + 1] = conversation_history[i + 1]

FailedExchangeKeepsLog ==
  turn'.op = "completion" /\ turn'.branch \in FailedOutcomes =>
    /\ turn'.ret = None
    /\ conversation_history' = conversation_history

\* C2: in every reachable state the log is a sequence of complete (user, assistant)
\* pairs: even length, a user turn first, each user turn followed by the assistant
\* turn of the same exchange, also after the cut to 20; and an exchange that fails
\* (status other than 200, exception, empty or blank reply) appends nothing.
LogIsPairsAndFailuresAppendNothing == []LogIsPairs /\ [][FailedExchangeKeepsLog]_vars

\* an exchange has failed on a log that was cut to 20 entries
FailedExchangeOnFullLog ==
  /\ turn.op = "completion"
  /\ turn.branch \in FailedOutcomes
  /\ Len(exchanges) > 20
  /\ Len(conversation_history) = 20

(***************************************************************************)
(* Properties of the program (Spec)                                        *)
(***************************************************************************)
MainTurn == turn.op = "main" /\ turn.text # ""

LastExchangeIs(user_input, assistant_response, language) ==
  /\ Len(conversation_history) >= 2
  /\ conversation_history[Len(conversation_history) - 1] = Turn("user", user_input, language)
  /\ conversation_history[Len(conversation_history)] = Turn("assistant", assistant_response, language)

\* C3: after every generate_response call that returns a reply to the main loop,
\* the exchange (user turn, assistant reply, request language) is at the end of the log.
ReplyIsLogged ==
  MainTurn /\ turn.branch = "respond" /\ Truthy(turn.ret) =>
    LastExchangeIs(turn.text, Format(turn.ret), turn.lang)

\* the main loop has taken what generate_response returned as the reply
MainLoopTookReply == MainTurn /\ turn.branch = "respond" /\ Truthy(turn.ret)

\* C4: after a reset command is handled, the log is empty and the vision context
\* is cleared: no stored description, capture time reset.
ResetClearsLogAndVision ==
  MainTurn /\ turn.branch = "reset" =>
    /\ conversation_history = <<>>
    /\ vision_context = None
    /\ last_vision_time = 0

\* a reset has been handled while a vision context was stored
ResetWithStoredVision == MainTurn /\ turn.branch = "reset" /\ vision_context # None

\* an utterance the main loop handles as a reset: it holds a reset word and is
\* neither an identity question nor an exit command
ResetUtterance(text) ==
  /\ \E word \in reset_words : Contains(Lower(text), word)
  /\ ~_is_identity_question(text)
  /\ ~_is_exit_command(text)

BackendAdapters ==
  {"process_vision_command", "llm.translate", "llm.generate", "desktop.execute",
   "desktop._close_app_sync", "web_search.search", "web_search.search_news",
   "web_search._search_wikipedia"}

\* C5: handling a reset utterance calls no backend adapter (language model, vision,
\* web or news search, encyclopedia, desktop automation): the pass records,
\* transcribes, clears the log and the language and speaks the localized confirmation.
ResetBypassesRouter ==
  MainTurn /\ ResetUtterance(turn.text) =>
    /\ \A i \in 1..Len(turn.events) :
         turn.events[i].e \notin {"call", "create", "raise"} /\ turn.events[i].a \notin BackendAdapters
    /\ turn.events = <<Ev("record", "", ""), Ev("transcribe", "", ""),
                       Ev("speak", reset_msg(turn.lang), turn.lang)>>
    /\ turn.ret = None
    /\ conversation_history = <<>>
    /\ current_language = "en"
    /\ running

\* a reset utterance heard in Hindi has been handled and confirmed in Hindi, a vision
\* context being stored
ResetHandledInHindi ==
  /\ MainTurn
  /\ ResetUtterance(turn.text)
  /\ turn.lang = "hi"
  /\ Spoken(turn.events) = <<Ev("speak", reset_msg("hi"), "hi")>>
  /\ vision_context # None

LlmAdapters == {"llm.translate", "llm.generate"}

SearchAdapters == {"web_search.search", "web_search.search_news", "web_search._search_wikipedia"}

CalledAny(events, adapters) == \E adapter \in adapters : Called(events, adapter)

\* the category of the handler that ran during the last operation, "none" when no
\* handler ran
HandlerThatRan ==
  IF turn.branch \in {"identity", "exit", "reset"} THEN "control"
  ELSE IF \E i \in 1..Len(turn.events) : turn.events[i] = Ev("create", "see_and_describe", turn.lang)
  THEN "vision"
  ELSE IF Called(turn.events, "desktop.execute") THEN "desktop"
  ELSE IF CalledAny(turn.events, SearchAdapters) THEN "web"
  ELSE IF Called(turn.events, "llm.generate") THEN "chat"
  ELSE "none"

\* the highest-priority category whose predicate is true for the utterance, in the
\* order vision, desktop command, exit/reset/identity, web-augmented chat, plain chat
HighestPriorityCategory(text) ==
  IF _needs_vision(text) THEN "vision"
  ELSE IF DesktopBranch(text) # "" THEN "desktop"
  ELSE IF _is_exit_command(text) \/ _is_reset_command(text) \/ _is_identity_question(text)
  THEN "control"
  ELSE IF SearchAdapter(text) # "" THEN "web"
  ELSE "chat"

\* C6: for every utterance the handler that runs is the handler of the
\* highest-priority category (vision, desktop command, exit/reset/identity,
\* web-augmented chat, plain chat) whose predicate is true for it.
HandlerIsHighestPriority == MainTurn => HandlerThatRan = HighestPriorityCategory(turn.text)

\* the main loop has handled an utterance for which both the vision predicate and
\* the exit predicate are true
VisionUtteranceInMainLoop ==
  MainTurn /\ _needs_vision(turn.text) /\ _is_exit_command(turn.text)

\* C7: each utterance is dispatched to exactly one handler: when the vision
\* predicate is true the call returns a reply or an apology and neither the desktop
\* adapter nor a search adapter nor the completion runs; when the desktop adapter
\* returns a string neither a search adapter nor the completion runs.
ExactlyOneHandler ==
  turn.op = "await" =>
    /\ _needs_vision(turn.text) =>
         /\ Truthy(turn.ret)
         /\ ~CalledAny(turn.events, {"desktop.execute", "llm.generate"} \cup SearchAdapters)
    /\ ~_needs_vision(turn.text) /\ DesktopBranch(turn.text) # "" =>
         /\ Truthy(turn.ret)
         /\ Called(turn.events, "desktop.execute")
         /\ ~CalledAny(turn.events, {"llm.generate"} \cup SearchAdapters)

\* an awaited call for an utterance for which the vision predicate is true has ended
VisionCallEnded ==
  /\ turn.op = "await"
  /\ _needs_vision(turn.text)
  /\ \E i \in 1..Len(turn.events) : turn.events[i] = Ev("create", "see_and_describe", turn.lang)

DesktopKeywords ==
  {"open", "launch", "start", "run", "close", "kill", "screenshot", "battery", "system",
   "volume"} \cup Keys(websites)

HasDesktopKeyword(text) == AnyIn(DesktopKeywords, Lower(text))

\* C8: for every utterance in which a desktop keyword appears, in every detected
\* language, the desktop adapter is invoked for the utterance, and before any call
\* to the language model.
DesktopBeforeLanguageModel ==
  turn.op \in {"main", "await"} /\ turn.text # "" /\ HasDesktopKeyword(turn.text) =>
    \E i \in 1..Len(turn.events) :
      /\ turn.events[i].e = "call"
      /\ turn.events[i].a = "desktop.execute"
      /\ \A j \in 1..(i - 1) : turn.events[j].a \notin LlmAdapters

\* an utterance with a desktop keyword, heard in Hindi, has led to a call to the
\* language model
DesktopKeywordReachedLanguageModel ==
  /\ turn.op = "await"
  /\ turn.lang = "hi"
  /\ HasDesktopKeyword(turn.text)
  /\ CalledAny(turn.events, LlmAdapters)

\* C9: the Hindi utterance for "close terminal" makes the close predicate of the
\* desktop adapter true and invokes the process termination; the language model is
\* never called and the assistant keeps running.
HindiCloseTerminal ==
  MainTurn /\ turn.text = CloseTerminalHi /\ turn.lang = "hi" =>
    /\ _is_close_app(DesktopCmd(turn.text))
    /\ Called(turn.events, "desktop._close_app_sync")
    /\ ~CalledAny(turn.events, LlmAdapters)
    /\ running

\* the main loop has handled the Hindi utterance and has stopped
HindiCloseTerminalStopsAssistant ==
  MainTurn /\ turn.text = CloseTerminalHi /\ turn.lang = "hi" /\ ~running

\* C10: for the English utterance "What's the weather today?" the general web search
\* runs (not news, not the encyclopedia), one request goes to the language model,
\* its prompt holding the search results, and the reply is the text spoken, in 'en'.
WeatherScenario ==
  MainTurn /\ turn.text = Weather /\ turn.lang = "en" =>
    /\ Called(turn.events, "web_search.search")
    /\ ~CalledAny(turn.events, {"web_search.search_news", "web_search._search_wikipedia"})
    /\ \E i \in 1..Len(turn.events) :
         /\ turn.events[i].e = "call" /\ turn.events[i].a = "llm.generate"
         /\ Contains(turn.events[i].lang, "Use the above web search information")
         /\ \A j \in 1..Len(turn.events) : turn.events[j].a = "llm.generate" => j = i
    /\ Spoken(turn.events) = <<Ev("speak", Format(turn.ret), "en")>>

\* the main loop has handled the weather question heard in English
WeatherQuestionHandled ==
  MainTurn /\ turn.text = Weather /\ turn.lang = "en" /\ turn.branch = "respond"

(***************************************************************************)
(* Properties of the vision classifier (SpecClassify)                      *)
(***************************************************************************)
\* the utterance holds no explicit trigger, no vision question pattern, no question
\* word and no visual noun
NoVisionWords(text) ==
  ~AnyIn(explicit_triggers \cup vision_question_patterns \cup question_words \cup visual_nouns,
         Lower(text))

\* the utterance holds a vision verb together with a question mark or one of the
\* words of line 122
VerbQuestion(text) ==
  /\ AnyIn(vision_verbs, Lower(text))
  /\ Contains(Lower(text), "?") \/ AnyIn(verb_question_words, Lower(text))

\* C11 as stated: _needs_vision is false for every utterance that holds no explicit
\* trigger, no vision question pattern, no question word and no visual noun.
NoVisionWordsIsNoVision ==
  turn.op = "_needs_vision" /\ NoVisionWords(turn.text) => turn.ret = Bool(FALSE)

\* C11 amended: _needs_vision is false for every utterance that holds no explicit
\* trigger, no vision question pattern, no question word, no visual noun, and no
\* vision verb together with a question mark or a word of line 122.
NoVisionWordsNoVerbQuestionIsNoVision ==
  turn.op = "_needs_vision" /\ NoVisionWords(turn.text) /\ ~VerbQuestion(turn.text) =>
    turn.ret = Bool(FALSE)

\* the classifier has said no to an utterance with a vision verb and no question
\* mark, and to none of the other words
VerbWithoutQuestionIsNoVision ==
  /\ turn.op = "_needs_vision"
  /\ NoVisionWords(turn.text)
  /\ AnyIn(vision_verbs, Lower(turn.text))
  /\ ~VerbQuestion(turn.text)
  /\ turn.ret = Bool(FALSE)

(***************************************************************************)
(* Properties of process_vision_command (SpecVision)                       *)
(***************************************************************************)
\* the last operation was a process_vision_command call for a vision utterance, made
\* while the camera or the vision backend fails
VisionCallFailed ==
  /\ turn.op = "process_vision_command"
  /\ Classified[turn.text].vision
  /\ turn.branch \in FailedCaptures

\* C12: when the vision predicate is true and frame capture or the vision backend
\* fails, process_vision_command returns the apology in the request language and
\* leaves the vision context and its time as they were.
VisionFailureGivesApology ==
  [][VisionCallFailed' =>
       /\ turn'.ret = Str(vision_apology(turn'.lang))
       /\ vision_context' = vision_context
       /\ last_vision_time' = last_vision_time]_vars

\* a vision utterance was processed while no frame could be captured, and the reply
\* is not the apology
FailedCaptureReported ==
  /\ VisionCallFailed
  /\ turn.branch = "no_frame"
  /\ turn.ret # Str(vision_apology(turn.lang))

(***************************************************************************)
(* Properties of the camera (SpecCamera, SpecCameraFair)                   *)
(***************************************************************************)
NoCallInProgress == \A t \in Tasks : pc[t] = "idle"

\* C13: once every see_and_describe call has returned, whatever its path (no frame,
\* a failed analysis, an exception, a description), the camera handle is None: the
\* camera is not open between two vision queries.
CameraReleasedAfterEveryCall == NoCallInProgress => camera = "None"

\* a call that opened the camera and whose analysis failed has returned, and no call
\* is in progress
FailedAnalysisReturned ==
  /\ NoCallInProgress
  /\ turn.op = "see_and_describe"
  /\ turn.branch = "status500"
  /\ camera = "None"

\* the callers inside _capture_frame_sync
Capturing == {t \in Tasks : pc[t] \in {"start", "read"}}

AtMostOneCapture == Cardinality(Capturing) <= 1

\* C14: at most one caller is inside _capture_frame_sync at any time, and a caller
\* that waits for the camera lock gets it in the end.
OneCaptureAtATimeAndWaitersServed ==
  /\ []AtMostOneCapture
  /\ \A t \in Tasks : (pc[t] = "waiting") ~> (pc[t] = "start")

\* a caller waits for the lock while another is inside _capture_frame_sync
WaitingBehindACapture ==
  /\ Cardinality(Capturing) = 1
  /\ Len(waiters) >= 1

(***************************************************************************)
(* Properties of the vision context in the prompts (SpecFreshness)         *)
(***************************************************************************)
\* the prompt that the last operation assembled
PromptOf(tn) ==
  IF tn.op = "_build_prompt" THEN tn.ret.s ELSE tn.events[1].lang

\* the step assembles a prompt for a request at time now
AssemblesPrompt ==
  /\ turn'.op \in {"_build_prompt", "generate_with_vision_context"}
  /\ now' = now

\* C15: a prompt assembled at time t holds the stored vision description exactly
\* when one is stored and t - T < 60, T being the time of its capture: it is in the
\* prompt at T+59, not at T+60, not at T+61, and nothing is injected when nothing is
\* stored.
VisionInPromptWhileFresh ==
  [][AssemblesPrompt =>
       (Contains(PromptOf(turn'), vision_line(turn'.lang, vision_context))
          <=> Truthy(vision_context) /\ now - last_vision_time < FreshSeconds)]_vars

\* the assembler of generate_response has made a prompt 59 seconds after a capture,
\* and the vision context is not in it
FreshVisionLeftOut ==
  /\ turn.op = "_build_prompt"
  /\ Truthy(vision_context)
  /\ now - last_vision_time = FreshSeconds - 1
  /\ ~Contains(turn.ret.s, Format(vision_context))

(***************************************************************************)
(* Properties of _build_prompt (SpecPrompt)                                *)
(***************************************************************************)
\* recentByLanguage(n, language): the last n entries of the log among those recorded
\* in the language
RecentByLanguage(log, n, language) ==
  LastN(SelectSeq(log, LAMBDA message : message.language = language), n)

\* what comes before the history turns: the system instruction of the language, then
\* the search context and the instruction to use it when there is a search context
PromptHead(language, web_context) ==
  language_instructions(language) \o "\n\n"
  \o (IF web_context = "" THEN ""
      ELSE web_context \o "\n\nUse the above web search information to answer the question.\n\n")

\* what comes after the history turns: the new user turn and the role cue
PromptTail(user_input) == "User: " \o user_input \o "\nAssistant: "

\* the last operation assembled a prompt, whose history part is the lines of turns
PromptHistoryIs(turns) ==
  turn.ret.s = PromptHead(turn.lang, turn.branch) \o AllLines(turns) \o PromptTail(turn.text)

\* C16: the history part of the prompt is made, in log order, of the last 6 entries
\* of the log among those recorded in the request language, all of them when they
\* are fewer; entries in another language do not take their places.
HistoryIsLastSixOfLanguage ==
  turn.op = "_build_prompt" =>
    PromptHistoryIs(RecentByLanguage(conversation_history, 6, turn.lang))

\* a prompt was assembled from a log whose entries in the request language are not
\* among its last 6, and none of them is in the prompt
OlderSameLanguageTurnsLeftOut ==
  /\ turn.op = "_build_prompt"
  /\ RecentByLanguage(conversation_history, 6, turn.lang) # <<>>
  /\ RecentByLanguage(LastN(conversation_history, 6), 6, turn.lang) = <<>>
  /\ PromptHistoryIs(<<>>)

\* the entries of the request language among the last 6 of the log
SelectedTurns == RecentByLanguage(LastN(conversation_history, 6), 6, turn.lang)

\* C17: the prompt is, in this order, the system instruction of the request
\* language, the search context with the instruction to use it (exactly when the
\* search context is not empty), the selected history turns, the new user turn and
\* the role cue 'Assistant: ', which is last.
PromptPartsInOrder ==
  turn.op = "_build_prompt" => PromptHistoryIs(SelectedTurns)

\* a prompt was assembled with a search context and with history turns
PromptWithContextAndHistory ==
  /\ turn.op = "_build_prompt"
  /\ turn.branch # ""
  /\ SelectedTurns # <<>>
  /\ PromptHistoryIs(SelectedTurns)

(***************************************************************************)
(* Properties of the awaited generate_response (Spec)                      *)
(***************************************************************************)
\* the utterance is for the chat branch: the vision predicate is false and the
\* desktop adapter has no command for it
ChatBranch(text) == ~Classified[text].vision /\ DesktopBranch(text) = ""

\* the times the adapter was called during the operation
CountCalls(events, adapter) ==
  Cardinality({i \in 1..Len(events) : events[i].e = "call" /\ events[i].a = adapter})

\* the step is an awaited generate_response call; its branch is what the language
\* model has to give
AwaitStep == turn'.op = "await" /\ now' = now /\ running' = running

\* C19: on the chat branch an awaited generate_response sends the completion
\* request exactly once; a non-200 status, an exception and an empty or blank
\* response give None and leave the log as it was; any other response is returned
\* with the surrounding whitespace removed.
CompletionRequestedExactlyOnce ==
  [][AwaitStep /\ ChatBranch(turn'.text) =>
       /\ CountCalls(turn'.events, "llm.generate") = 1
       /\ IF Strip(LlmBody(turn'.branch)) # "" /\ turn'.branch \notin {"status500", "exception"}
          THEN turn'.ret = Str(Strip(LlmBody(turn'.branch)))
          ELSE turn'.ret = None /\ conversation_history' = conversation_history]_vars

\* an awaited call for the greeting of test_async.py has ended while the language
\* model had a reply to give: no request was sent and None came back
GreetingGotNoReply ==
  /\ turn.op = "await"
  /\ turn.text = Hello
  /\ turn.branch = "reply"
  /\ CountCalls(turn.events, "llm.generate") = 0
  /\ turn.ret = None

(***************************************************************************)
(* Properties of the search step of generate_response (SpecRouter)         *)
(***************************************************************************)
\* the desktop adapter had no reply for the utterance of the last operation
NoDesktopReply == turn.op = "after_vision" /\ DesktopBranch(turn.text) = ""

\* C20: for an utterance for which _needs_web_search is false no search adapter
\* (news, encyclopedia, general web) is called, and the utterance goes to the
\* language model with no search context in the prompt.
NoSearchWithoutWebPredicate ==
  NoDesktopReply /\ ~Classified[turn.text].web =>
    /\ ~CalledAny(turn.events, SearchAdapters)
    /\ \E i \in 1..Len(turn.events) :
         /\ turn.events[i].e = "call"
         /\ turn.events[i].a = "llm.generate"
         /\ ~Contains(turn.events[i].lang, "Use the above web search information")

\* the encyclopedia adapter was called for "what is python", for which
\* _needs_web_search is false
EncyclopediaWithoutWebPredicate ==
  /\ NoDesktopReply
  /\ turn.text = "what is python"
  /\ ~_needs_web_search(turn.text)
  /\ Called(turn.events, "web_search._search_wikipedia")

\* the search adapters called during the operation, in the order of the calls
SearchCalls ==
  SelectSeq(turn.events, LAMBDA ev : ev.e = "call" /\ ev.a \in SearchAdapters)

\* the adapter returned an empty list during the operation
ReturnedEmpty(adapter) ==
  \E i \in 1..Len(turn.events) : turn.events[i] = Ev("return", adapter, "empty")

\* C21: for an utterance that needs web augmentation, a news utterance calls the news
\* adapter alone (also when it is a knowledge query); else a knowledge query calls
\* the encyclopedia adapter first and the general web search after it exactly when
\* the encyclopedia returned no article; else the general web search alone is called.
SearchAdapterOrder ==
  NoDesktopReply /\ Classified[turn.text].web =>
    IF Classified[turn.text].news
    THEN SearchCalls = <<Ev("call", "web_search.search_news", turn.lang)>>
    ELSE IF Classified[turn.text].knowledge
    THEN SearchCalls = <<Ev("call", "web_search._search_wikipedia", turn.lang)>>
                       \o (IF ReturnedEmpty("web_search._search_wikipedia")
                           THEN <<Ev("call", "web_search.search", turn.lang)>> ELSE <<>>)
    ELSE SearchCalls = <<Ev("call", "web_search.search", turn.lang)>>

\* the encyclopedia returned no article for a knowledge query that needs web
\* augmentation, and the general web search was not called
NoFallbackAfterEncyclopedia ==
  /\ NoDesktopReply
  /\ turn.text = StockQuestion
  /\ Classified[turn.text].web /\ Classified[turn.text].knowledge /\ ~Classified[turn.text].news
  /\ ReturnedEmpty("web_search._search_wikipedia")
  /\ ~Called(turn.events, "web_search.search")

\* the reply of the language model of the operation, None when it has none to give
PlainChatReturn ==
  IF Strip(LlmBody(turn.branch)) # "" /\ turn.branch \notin {"status500", "exception"}
  THEN Str(Strip(LlmBody(turn.branch))) ELSE None

\* C22: when every search adapter tried for an utterance returns no result, the
\* language model is still called, with no search context in the prompt, and the
\* call returns what it returns for plain chat, the exchange being logged when there
\* is a reply.
ZeroResultsStillAnswered ==
  NoDesktopReply /\ SearchCalls # <<>> /\ ReturnedEmpty(SearchCalls[Len(SearchCalls)].a) =>
    /\ \E i \in 1..Len(turn.events) :
         /\ turn.events[i].e = "call"
         /\ turn.events[i].a = "llm.generate"
         /\ ~Contains(turn.events[i].lang, "Use the above web search information")
    /\ turn.ret = PlainChatReturn
    /\ Truthy(turn.ret) => LastExchangeIs(turn.text, turn.ret.s, turn.lang)

\* the general web search found nothing for the weather question, the language model
\* was not called and None came back
ZeroResultsGaveNone ==
  /\ NoDesktopReply
  /\ turn.text = Weather
  /\ ReturnedEmpty("web_search.search")
  /\ turn.branch = "reply"
  /\ ~Called(turn.events, "llm.generate")
  /\ turn.ret = None

\* the backends when the operating-system call fails, and when nothing fails
OsDown == [tr |-> "reply", llm |-> "reply", proc |-> TRUE, os |-> FALSE, search |-> "results"]

AllUp == [OsDown EXCEPT !.os = TRUE]

\* the operating-system call of the desktop adapter failed during the operation:
\* the reply is the one the adapter gives then, and not the one it gives otherwise
DesktopCallFailed ==
  /\ turn.op = "after_vision"
  /\ turn.ret = execute(turn.text, turn.lang, OsDown).ret
  /\ turn.ret # execute(turn.text, turn.lang, AllUp).ret

\* the language model was called during the operation and failed
CompletionFailed ==
  /\ turn.op = "after_vision"
  /\ Called(turn.events, "llm.generate")
  /\ turn.branch \in {"status500", "exception"}

FailedPass(tn) ==
  /\ tn.op = "main"
  /\ \/ tn.branch \in {"no audio", "no speech"}
     \/ \E i \in 1..Len(tn.events) : tn.events[i].e = "raise"

\* C24: the main loop ends only with an exit command or a keyboard interrupt; a
\* failed recording, a failed transcription and an exception raised while a turn is
\* handled leave it running, ready to record the next turn.
LoopEndsOnlyOnExitOrInterrupt ==
  [][/\ running /\ ~running' =>
          turn'.op = "interrupt" \/ (turn'.op = "main" /\ turn'.branch = "exit")
     /\ running /\ FailedPass(turn') /\ turn'.op = "main" /\ turn' # turn => running']_vars

\* an exception was raised while the main loop spoke the reply, and the loop runs
ExceptionLeftLoopRunning ==
  /\ FailedPass(turn)
  /\ turn.branch = "respond"
  /\ running

\* C25: when the microphone gives no recording, or the camera cannot serve a vision
\* utterance, the failure is caught, something is spoken to the user for that turn
\* (for the camera the apology in the language of the turn, when not the description)
\* and the loop goes on.
ResourceFailureIsSpoken ==
  /\ turn.op = "main" /\ turn.branch = "no audio" =>
       Spoken(turn.events) # <<>> /\ running
  /\ MainTurn /\ turn.branch = "respond" /\ Classified[turn.text].vision =>
       Spoken(turn.events) # <<>> /\ running

\* the recording failed, nothing was spoken and the loop goes on
SilentAfterFailedRecording ==
  /\ turn.op = "main"
  /\ turn.branch = "no audio"
  /\ Spoken(turn.events) = <<>>
  /\ running

vision_question_rules ==
  <<[triggers |->
        {"time", "clock", "watch", "#2360#2350#2351", "#2328#2337#2364#2368",
         "#2744#2734#2735", "#2712#2721#2751#2735#2750#2739"},
      prompt |-> "What time is shown on any clock, watch, or time display visible in this image? Read the exact time."],
    [triggers |->
        {"how many people", "how many person", "#2325#2367#2340#2344#2375 #2354#2379#2327",
         "#2709#2759#2719#2738#2750 #2738#2763#2709#2763"},
      prompt |-> "How many people are in this image? Count them carefully."],
    [triggers |->
        {"who is", "who are", "#2325#2380#2344 #2361#2376", "#2709#2763#2723 #2715#2759"},
      prompt |-> "Describe the people in this image. Who do you see?"],
    [triggers |->
        {"how many object", "count", "#2325#2367#2340#2344#2375",
         "#2709#2759#2719#2738#2750"},
      prompt |-> "Count and list all the objects you can see in this image."],
    [triggers |->
        {"what color", "what colour", "#2352#2306#2327", "#2736#2690#2711"},
      prompt |-> "What colors do you see in this image? Describe them in detail."],
    [triggers |->
        {"where am i", "what room", "what place", "#2325#2361#2366#2305",
         "#2709#2765#2735#2750#2690"},
      prompt |-> "Describe this location. What kind of room or place is this? What can you see?"],
    [triggers |->
        {"read", "text", "written", "#2346#2338#2364", "#2354#2367#2326#2366",
         "#2741#2750#2690#2714", "#2738#2710#2765#2735#2753#2690"},
      prompt |-> "Read all the text visible in this image. What does it say?"],
    [triggers |->
        {"what is this", "what is on", "what is in"},
      prompt |-> "Describe the main object or item in this image in detail."],
    [triggers |->
        {"weather", "temperature", "#2350#2380#2360#2350", "#2745#2741#2750#2734#2750#2728"},
      prompt |-> "If there's a weather display or temperature reading visible, what does it show?"],
    [triggers |->
        {"price", "cost", "how much", "#2325#2368#2350#2340", "#2709#2751#2690#2734#2724"},
      prompt |-> "If there are any prices or monetary values visible, what are they?"],
    [triggers |->
        {"screen", "monitor", "display", "phone", "#2360#2381#2325#2381#2352#2368#2344",
         "#2744#2765#2709#2765#2736#2752#2728"},
      prompt |-> "What is displayed on the screen or monitor in this image? Describe what you see."],
    [triggers |->
        {"sign", "label", "#2360#2366#2311#2344", "#2738#2759#2732#2738"},
      prompt |-> "What signs, labels, or text are visible in this image? Read them."],
    [triggers |->
        {"what do you see", "what can you see", "describe",
         "#2342#2367#2326 #2352#2361#2366", "#2342#2375#2326 #2352#2361#2366",
         "#2716#2753#2707 #2715#2763"},
      prompt |-> "Describe everything visible in this image in detail - including people, objects, text, numbers, colors, and any information displayed."]>>

\* the rules whose phrases occur in the lowercased utterance
MatchingRules(text) ==
  {i \in 1..Len(vision_question_rules) : AnyIn(vision_question_rules[i].triggers, Lower(text))}

\* the utterance begins with one of the question words
StartsWithQuestionWord(text) ==
  \E qw \in vision_question_words : StartsWith(Lower(text), qw)

VisionQueryDone ==
  /\ turn.op = "process_vision_command"
  /\ Classified[turn.text].vision

\* C28 as stated: a vision query makes one translation call exactly when its
\* language is not English, whatever the language code.
TranslatedWhenNotEnglish ==
  VisionQueryDone => (CountCalls(turn.events, "llm.translate") = 1 <=> turn.lang # "en")

\* C28: a vision query makes one translation call exactly when its language is
\* Hindi or Gujarati and none for English or any other language code; the reply is
\* the localized prefix followed by the translation or, when the translation call
\* fails or returns nothing, by the description as it was stored.
TranslatedWhenHindiOrGujarati ==
  VisionQueryDone =>
    /\ CountCalls(turn.events, "llm.translate") = (IF turn.lang \in {"hi", "gu"} THEN 1 ELSE 0)
    /\ \/ turn.ret = Str(vision_prefix(turn.lang) \o Format(vision_context))
       \/ /\ turn.lang \in {"hi", "gu"}
          /\ turn.ret = Str(vision_prefix(turn.lang) \o TranslationText(turn.lang))

\* a Hindi vision query whose translation call gave nothing: the reply carries the
\* untranslated description
HindiQueryFellBack ==
  /\ VisionQueryDone
  /\ turn.lang = "hi"
  /\ CountCalls(turn.events, "llm.translate") = 1
  /\ turn.ret = Str(vision_prefix("hi") \o Format(vision_context))

\* C29: the vision context is one slot: after a vision query for which the camera
\* and the vision backend gave a description it holds that description, a text, and
\* the time of the query.
ContextHoldsLatestDescription ==
  VisionQueryDone /\ turn.branch = "description" =>
    vision_context.kind = "str" /\ last_vision_time = now

\* after a vision query with a working camera the slot holds a coroutine object
ContextHoldsCoroutine ==
  /\ VisionQueryDone
  /\ turn.branch = "description"
  /\ vision_context = Coroutine("see_and_describe")
  /\ last_vision_time = now

(***************************************************************************)
(* The camera under two callers (SpecCamera)                               *)
(***************************************************************************)
\* C30: the camera is never released by one see_and_describe call while the frame
\* capture of another is in progress: a caller that holds the lock and is about to
\* read, having opened the camera or found it open, reads from an open camera.
CaptureReadsOpenCamera ==
  \A t \in Tasks : pc[t] = "read" => locked /\ camera = "open"

\* a see_and_describe call has just returned and stopped the camera while another
\* caller, holding the lock, is about to read from it
CameraStoppedUnderCapture ==
  /\ turn.op = "see_and_describe"
  /\ camera = "None"
  /\ locked
  /\ \E t \in Tasks : pc[t] = "read"
====
